---- MODULE Spec2Model ----
(***************************************************************************)
(* Model of the task-property-sync Obsidian plugin: the marker parser      *)
(* (taskParser.ts), the condition evaluator and aggregation engine         *)
(* (operations.ts), the header writer (frontmatterWriter.ts), the mapping  *)
(* resolver (processor.ts) and the plugin's triggers, debounce and         *)
(* re-entrancy guard (main.ts).                                            *)
(*                                                                         *)
(* A JavaScript string is a sequence of UTF-16 code units.  A code unit is *)
(* written as a one-character TLA+ string ("a", " ", "7") or, for the      *)
(* units of the emoji glyphs, as its four hex digits ("D83D", "23F3").     *)
(* A JavaScript value is a record tagged with its type.                    *)
(***************************************************************************)
EXTENDS Integers, Sequences, FiniteSets, Bags, TLC

----------------------------------------------------------------------------
(* JavaScript values *)

JNull == [t |-> "null"]
JUndefined == [t |-> "undefined"]
JStr(s) == [t |-> "string", s |-> s]
\* A number: its integer part and the digits after the decimal point (none
\* for an integer), as parseInt / parseFloat of a digit string produce it.
JNum(n, frac) == [t |-> "number", n |-> n, frac |-> frac]

----------------------------------------------------------------------------
(* Code units and string primitives *)

\* The code units the model uses, in increasing UTF-16 code unit order: the
\* order JavaScript's <, > and Array.prototype.sort() compare strings by.
CodeOrder ==
  << "\t", "\n", "\r", " ", "*", ",", "-", ".", "/",
     "0", "1", "2", "3", "4", "5", "6", "7", "8", "9",
     "X", "[", "]",
     "a", "b", "c", "d", "e", "f", "g", "h", "i", "j", "k", "l", "m",
     "n", "o", "p", "q", "r", "s", "t", "u", "v", "w", "x", "y", "z",
     "23EB", "23EC", "23F3", "2705", "2795",
     "D83C", "D83D", "DCC5", "DD01", "DD3A", "DD3C", "DD3D", "DD94", "DE00", "DEEB" >>

CodeOf(c) == CHOOSE i \in 1..Len(CodeOrder) : CodeOrder[i] = c

\* \s of a JavaScript regular expression and the units trim() strips.
WhiteSpace == {" ", "\t", "\n", "\r"}
\* The units "." does not match.
LineTerminator == {"\n", "\r"}
Digit == {"0", "1", "2", "3", "4", "5", "6", "7", "8", "9"}

SetMin(S) == CHOOSE x \in S : \A y \in S : x <= y
SetMax(S) == CHOOSE x \in S : \A y \in S : x >= y

\* g occurs in s at index i.
StartsWithAt(s, i, g) ==
  /\ i >= 1
  /\ i + Len(g) - 1 <= Len(s)
  /\ \A k \in 1..Len(g) : s[i + k - 1] = g[k]

\* String.prototype.startsWith
StartsWith(s, g) == StartsWithAt(s, 1, g)

\* String.prototype.endsWith
EndsWith(s, g) == StartsWithAt(s, Len(s) - Len(g) + 1, g)

\* String.prototype.includes
Includes(s, g) == \E i \in 1..(Len(s) + 1) : StartsWithAt(s, i, g)

\* Index of the first occurrence of g in s, 0 when there is none.
IndexOf(s, g) ==
  LET hits == {i \in 1..Len(s) : StartsWithAt(s, i, g)}
  IN  IF hits = {} THEN 0 ELSE SetMin(hits)

\* The first index >= i that is past the end of s or holds a unit outside C:
\* where a greedy run C* that starts at i ends.
SkipWhile(s, i, C) ==
  SetMin({j \in i..(Len(s) + 1) : j = Len(s) + 1 \/ s[j] \notin C})

\* The first index >= i that is past the end of s or holds a unit of C.
SkipUntil(s, i, C) ==
  SetMin({j \in i..(Len(s) + 1) : j = Len(s) + 1 \/ s[j] \in C})

\* String.prototype.trim
Trim(s) ==
  LET a == SkipWhile(s, 1, WhiteSpace)
      keep == {j \in 1..Len(s) : s[j] \notin WhiteSpace}
  IN  IF keep = {} THEN << >> ELSE SubSeq(s, a, SetMax(keep))

\* s.replace(/\s+/g, " ")
RECURSIVE CollapseWhiteSpace(_)
CollapseWhiteSpace(s) ==
  IF s = << >> THEN << >>
  ELSE IF Head(s) \in WhiteSpace
       THEN <<" ">> \o CollapseWhiteSpace(SubSeq(s, SkipWhile(s, 1, WhiteSpace), Len(s)))
       ELSE <<Head(s)>> \o CollapseWhiteSpace(Tail(s))

\* s.split("\n")
RECURSIVE SplitLines(_)
SplitLines(s) ==
  LET k == SkipUntil(s, 1, {"\n"})
  IN  IF k > Len(s) THEN <<s>>
      ELSE <<SubSeq(s, 1, k - 1)>> \o SplitLines(SubSeq(s, k + 1, Len(s)))

\* a < b in JavaScript's string order (code unit by code unit, a proper
\* prefix first).
RECURSIVE StrLess(_, _)
StrLess(a, b) ==
  IF b = << >> THEN FALSE
  ELSE IF a = << >> THEN TRUE
  ELSE IF Head(a) = Head(b) THEN StrLess(Tail(a), Tail(b))
  ELSE CodeOf(Head(a)) < CodeOf(Head(b))

----------------------------------------------------------------------------
(* taskParser.ts *)

\* A regular expression match: the index of its first unit, the index after
\* its last unit, and its capture group.  NoMatch is String.match's null.
NoMatch == [index |-> 0]
Match(i, e, g) == [index |-> i, end |-> e, group |-> g]

\* text.replace(regex, "") for a regex without the g flag: the first match
\* is cut out.
RemoveMatch(text, m) ==
  IF m = NoMatch THEN text
  ELSE SubSeq(text, 1, m.index - 1) \o SubSeq(text, m.end, Len(text))

\* /^(\s*[-*]\s*\[(.)\])\s*(.*)/ : group is <<status unit, rest of the line>>.
TASK_CHECKBOX_REGEX(line) ==
  LET a == SkipWhile(line, 1, WhiteSpace)
      b == SkipWhile(line, a + 1, WhiteSpace)
      c == SkipWhile(line, b + 3, WhiteSpace)
      d == SkipUntil(line, c, LineTerminator)
  IN  IF /\ a <= Len(line)
         /\ line[a] \in {"-", "*"}
         /\ b + 2 <= Len(line)
         /\ line[b] = "["
         /\ line[b + 1] \notin LineTerminator
         /\ line[b + 2] = "]"
      THEN Match(1, d, <<line[b + 1], SubSeq(line, c, d - 1)>>)
      ELSE NoMatch

\* \d{4}-\d{2}-\d{2} at index j.
IsDateAt(s, j) ==
  /\ j + 9 <= Len(s)
  /\ \A k \in 0..9 : IF k \in {4, 7} THEN s[j + k] = "-" ELSE s[j + k] \in Digit

\* /<glyph>\s*(\d{4}-\d{2}-\d{2})/ : the leftmost occurrence of the glyph
\* that is followed by optional white space and a date.
DateRegex(glyph, text) ==
  LET dateOf(i) == SkipWhile(text, i + Len(glyph), WhiteSpace)
      hits == {i \in 1..Len(text) :
                 StartsWithAt(text, i, glyph) /\ IsDateAt(text, dateOf(i))}
  IN  IF hits = {} THEN NoMatch
      ELSE LET i == SetMin(hits)
           IN  Match(i, dateOf(i) + 10, SubSeq(text, dateOf(i), dateOf(i) + 9))

GlyphDue == <<"D83D", "DCC5">>
GlyphScheduled == <<"23F3">>
GlyphStart == <<"D83D", "DEEB">>
GlyphCreated == <<"2795">>
GlyphDone == <<"2705">>
GlyphRecurrence == <<"D83D", "DD01">>
GlyphHighest == <<"D83D", "DD3A">>
GlyphHigh == <<"23EB">>
GlyphMedium == <<"D83D", "DD3C">>
GlyphLow == <<"D83D", "DD3D">>
GlyphLowest == <<"23EC">>

DUE_DATE_REGEX(text) == DateRegex(GlyphDue, text)
SCHEDULED_DATE_REGEX(text) == DateRegex(GlyphScheduled, text)
START_DATE_REGEX(text) == DateRegex(GlyphStart, text)
CREATED_DATE_REGEX(text) == DateRegex(GlyphCreated, text)
DONE_DATE_REGEX(text) == DateRegex(GlyphDone, text)

\* The code units the character class of RECURRENCE_REGEX excludes.  The
\* regex has no u flag, so an emoji outside the basic plane stands in the
\* class as its two surrogate units, each excluded on its own.
RecurrenceStop ==
  { "D83D", "DCC5", "23F3", "DEEB", "2795", "2705", "23EB",
    "DD3C", "DD3D", "23EC", "D83C", "DD94" }

\* RECURRENCE_REGEX with a capture that runs to the end of the text.
RECURRENCE_REGEX_ToTheEnd(text) ==
  LET i == IndexOf(text, GlyphRecurrence)
      j == SkipWhile(text, i + Len(GlyphRecurrence), WhiteSpace)
  IN  IF i = 0 THEN NoMatch ELSE Match(i, Len(text) + 1, SubSeq(text, j, Len(text)))

\* /<recurrence glyph>\s*([^...]*)/
RECURRENCE_REGEX(text) ==
  LET i == IndexOf(text, GlyphRecurrence)
      j == SkipWhile(text, i + Len(GlyphRecurrence), WhiteSpace)
      k == SkipUntil(text, j, RecurrenceStop)
  IN  IF i = 0 THEN NoMatch ELSE Match(i, k, SubSeq(text, j, k - 1))

\* A regex that is one literal glyph.
GlyphRegex(glyph, text) ==
  LET i == IndexOf(text, glyph)
  IN  IF i = 0 THEN NoMatch ELSE Match(i, i + Len(glyph), << >>)

PRIORITY_HIGHEST_REGEX(text) == GlyphRegex(GlyphHighest, text)
PRIORITY_HIGH_REGEX(text) == GlyphRegex(GlyphHigh, text)
PRIORITY_MEDIUM_REGEX(text) == GlyphRegex(GlyphMedium, text)
PRIORITY_LOW_REGEX(text) == GlyphRegex(GlyphLow, text)
PRIORITY_LOWEST_REGEX(text) == GlyphRegex(GlyphLowest, text)

\* extractMatch: the capture group of the first match, or null.
extractMatch(m) == IF m = NoMatch THEN JNull ELSE JStr(m.group)

\* extractPriority with the leftmost priority glyph deciding.
extractPriorityLeftmost(text) ==
  LET at == << PRIORITY_HIGHEST_REGEX(text).index, PRIORITY_HIGH_REGEX(text).index,
               PRIORITY_MEDIUM_REGEX(text).index, PRIORITY_LOW_REGEX(text).index,
               PRIORITY_LOWEST_REGEX(text).index >>
      names == << <<"h", "i", "g", "h", "e", "s", "t">>, <<"h", "i", "g", "h">>,
                  <<"m", "e", "d", "i", "u", "m">>, <<"l", "o", "w">>,
                  <<"l", "o", "w", "e", "s", "t">> >>
      found == {r \in 1..5 : at[r] # 0}
  IN  IF found = {} THEN JNull
      ELSE JStr(names[CHOOSE r \in found : \A q \in found : at[r] <= at[q]])

extractPriority(text) ==
  IF PRIORITY_HIGHEST_REGEX(text) # NoMatch THEN JStr(<<"h", "i", "g", "h", "e", "s", "t">>)
  ELSE IF PRIORITY_HIGH_REGEX(text) # NoMatch THEN JStr(<<"h", "i", "g", "h">>)
  ELSE IF PRIORITY_MEDIUM_REGEX(text) # NoMatch THEN JStr(<<"m", "e", "d", "i", "u", "m">>)
  ELSE IF PRIORITY_LOW_REGEX(text) # NoMatch THEN JStr(<<"l", "o", "w">>)
  ELSE IF PRIORITY_LOWEST_REGEX(text) # NoMatch THEN JStr(<<"l", "o", "w", "e", "s", "t">>)
  ELSE JNull

\* The patterns extractDescription removes, by name.
RegexNamed(name, text) ==
  CASE name = "DUE_DATE_REGEX" -> DUE_DATE_REGEX(text)
    [] name = "SCHEDULED_DATE_REGEX" -> SCHEDULED_DATE_REGEX(text)
    [] name = "START_DATE_REGEX" -> START_DATE_REGEX(text)
    [] name = "CREATED_DATE_REGEX" -> CREATED_DATE_REGEX(text)
    [] name = "DONE_DATE_REGEX" -> DONE_DATE_REGEX(text)
    [] name = "RECURRENCE_REGEX" -> RECURRENCE_REGEX(text)
    [] name = "PRIORITY_HIGHEST_REGEX" -> PRIORITY_HIGHEST_REGEX(text)
    [] name = "PRIORITY_HIGH_REGEX" -> PRIORITY_HIGH_REGEX(text)
    [] name = "PRIORITY_MEDIUM_REGEX" -> PRIORITY_MEDIUM_REGEX(text)
    [] name = "PRIORITY_LOW_REGEX" -> PRIORITY_LOW_REGEX(text)
    [] name = "PRIORITY_LOWEST_REGEX" -> PRIORITY_LOWEST_REGEX(text)

\* text.replace(regex, "")
Replace(text, name) == RemoveMatch(text, RegexNamed(name, text))

StripDates(text) ==
  Replace(Replace(Replace(Replace(Replace(text,
    "DUE_DATE_REGEX"), "SCHEDULED_DATE_REGEX"), "START_DATE_REGEX"),
    "CREATED_DATE_REGEX"), "DONE_DATE_REGEX")

StripPriorities(text) ==
  Replace(Replace(Replace(Replace(Replace(text,
    "PRIORITY_HIGHEST_REGEX"), "PRIORITY_HIGH_REGEX"), "PRIORITY_MEDIUM_REGEX"),
    "PRIORITY_LOW_REGEX"), "PRIORITY_LOWEST_REGEX")

extractDescription(taskContent) ==
  Trim(CollapseWhiteSpace(
    StripPriorities(Replace(StripDates(taskContent), "RECURRENCE_REGEX"))))

\* The record of a line that matched TASK_CHECKBOX_REGEX.
TaskOfMatch(line, lineNumber, match) ==
  LET statusChar == <<match.group[1]>>
      taskContent == Trim(match.group[2])
      recurrence == extractMatch(RECURRENCE_REGEX(taskContent))
  IN  [ line |-> line,
        lineNumber |-> lineNumber,
        isDone |-> statusChar = <<"x">> \/ statusChar = <<"X">>,
        description |-> JStr(extractDescription(taskContent)),
        dueDate |-> extractMatch(DUE_DATE_REGEX(taskContent)),
        scheduledDate |-> extractMatch(SCHEDULED_DATE_REGEX(taskContent)),
        startDate |-> extractMatch(START_DATE_REGEX(taskContent)),
        createdDate |-> extractMatch(CREATED_DATE_REGEX(taskContent)),
        doneDate |-> extractMatch(DONE_DATE_REGEX(taskContent)),
        \* recurrence ? recurrence.trim() : null  (null and "" are falsy)
        recurrence |-> IF recurrence = JNull \/ recurrence = JStr(<< >>)
                       THEN JNull ELSE JStr(Trim(recurrence.s)),
        priority |-> extractPriority(taskContent),
        status |-> JStr(statusChar) ]

\* parseTaskLine numbering the lines from 1.
parseTaskLineFromOne(line, lineNumber) ==
  LET match == TASK_CHECKBOX_REGEX(line)
  IN  IF match = NoMatch THEN << >>
      ELSE <<TaskOfMatch(line, lineNumber + 1, match)>>

\* parseTaskLine: <<record>> for a task line, << >> (null) for any other.
parseTaskLine(line, lineNumber) ==
  LET match == TASK_CHECKBOX_REGEX(line)
  IN  IF match = NoMatch THEN << >> ELSE <<TaskOfMatch(line, lineNumber, match)>>

RECURSIVE ParseLinesFrom(_, _)
ParseLinesFrom(lines, i) ==
  IF i >= Len(lines) THEN << >>
  ELSE parseTaskLine(lines[i + 1], i) \o ParseLinesFrom(lines, i + 1)

parseTasks(content) == ParseLinesFrom(SplitLines(content), 0)

getTaskPropertyValue(task, property) ==
  CASE property = "due_date" -> task.dueDate
    [] property = "scheduled_date" -> task.scheduledDate
    [] property = "start_date" -> task.startDate
    [] property = "created_date" -> task.createdDate
    [] property = "done_date" -> task.doneDate
    [] property = "recurrence" -> task.recurrence
    [] property = "priority" -> task.priority
    [] property = "status" -> task.status
    [] property = "description" -> task.description
    [] OTHER -> JNull

----------------------------------------------------------------------------
(* operations.ts *)

\* evaluateCondition with a not_equals that an absent value fails.
evaluateConditionAbsentNeverDiffers(task, condition) ==
  LET taskValue == getTaskPropertyValue(task, condition.property)
      condValue == condition.value
      op == condition.operator
  IN  CASE op = "equals" -> taskValue = JStr(condValue)
        [] op = "not_equals" -> taskValue # JNull /\ taskValue # JStr(condValue)
        [] op = "contains" -> taskValue # JNull /\ Includes(taskValue.s, condValue)
        [] op = "not_contains" -> taskValue = JNull \/ ~Includes(taskValue.s, condValue)
        [] op = "is_empty" -> taskValue = JNull \/ taskValue = JStr(<< >>)
        [] op = "is_not_empty" -> taskValue # JNull /\ taskValue # JStr(<< >>)
        [] op = "greater_than" -> taskValue # JNull /\ StrLess(condValue, taskValue.s)
        [] op = "less_than" -> taskValue # JNull /\ StrLess(taskValue.s, condValue)
        [] op = "greater_or_equal" -> taskValue # JNull /\ ~StrLess(taskValue.s, condValue)
        [] op = "less_or_equal" -> taskValue # JNull /\ ~StrLess(condValue, taskValue.s)
        [] OTHER -> TRUE

\* evaluateCondition with a greater_or_equal that is a strict comparison.
evaluateConditionStrictOrEqual(task, condition) ==
  LET taskValue == getTaskPropertyValue(task, condition.property)
      condValue == condition.value
      op == condition.operator
  IN  CASE op = "equals" -> taskValue = JStr(condValue)
        [] op = "not_equals" -> taskValue # JStr(condValue)
        [] op = "contains" -> taskValue # JNull /\ Includes(taskValue.s, condValue)
        [] op = "not_contains" -> taskValue = JNull \/ ~Includes(taskValue.s, condValue)
        [] op = "is_empty" -> taskValue = JNull \/ taskValue = JStr(<< >>)
        [] op = "is_not_empty" -> taskValue # JNull /\ taskValue # JStr(<< >>)
        [] op = "greater_than" -> taskValue # JNull /\ StrLess(condValue, taskValue.s)
        [] op = "less_than" -> taskValue # JNull /\ StrLess(taskValue.s, condValue)
        [] op = "greater_or_equal" -> taskValue # JNull /\ StrLess(condValue, taskValue.s)
        [] op = "less_or_equal" -> taskValue # JNull /\ ~StrLess(condValue, taskValue.s)
        [] OTHER -> TRUE

evaluateCondition(task, condition) ==
  LET taskValue == getTaskPropertyValue(task, condition.property)
      condValue == condition.value
      op == condition.operator
  IN  CASE op = "equals" -> taskValue = JStr(condValue)
        [] op = "not_equals" -> taskValue # JStr(condValue)
        [] op = "contains" -> taskValue # JNull /\ Includes(taskValue.s, condValue)
        [] op = "not_contains" -> taskValue = JNull \/ ~Includes(taskValue.s, condValue)
        [] op = "is_empty" -> taskValue = JNull \/ taskValue = JStr(<< >>)
        [] op = "is_not_empty" -> taskValue # JNull /\ taskValue # JStr(<< >>)
        [] op = "greater_than" -> taskValue # JNull /\ StrLess(condValue, taskValue.s)
        [] op = "less_than" -> taskValue # JNull /\ StrLess(taskValue.s, condValue)
        [] op = "greater_or_equal" -> taskValue # JNull /\ ~StrLess(taskValue.s, condValue)
        [] op = "less_or_equal" -> taskValue # JNull /\ ~StrLess(condValue, taskValue.s)
        [] OTHER -> TRUE

\* filterTasksByConditions without its early return on an empty condition
\* list.
filterTasksByConditionsAlwaysFiltering(tasks, conditions, logic) ==
  LET keep == {t \in 1..Len(tasks) :
                 IF logic = "AND"
                 THEN \A i \in 1..Len(conditions) : evaluateCondition(tasks[t], conditions[i])
                 ELSE \E i \in 1..Len(conditions) : evaluateCondition(tasks[t], conditions[i])}
  IN  [k \in 1..Cardinality(keep) |->
         tasks[CHOOSE t \in keep : Cardinality({u \in keep : u < t}) = k - 1]]

\* filterTasksByConditions with a loop that stops one task early.
filterTasksByConditionsSkippingLast(tasks, conditions, logic) ==
  IF Len(conditions) = 0 THEN tasks
  ELSE LET keep == {t \in 1..(Len(tasks) - 1) :
                      IF logic = "AND"
                      THEN \A i \in 1..Len(conditions) : evaluateCondition(tasks[t], conditions[i])
                      ELSE \E i \in 1..Len(conditions) : evaluateCondition(tasks[t], conditions[i])}
       IN  [k \in 1..Cardinality(keep) |->
              tasks[CHOOSE t \in keep : Cardinality({u \in keep : u < t}) = k - 1]]

\* Array.prototype.filter: the elements whose index is in keep, in order.
RECURSIVE FilterSeq(_, _, _)
FilterSeq(seq, keep, i) ==
  IF i > Len(seq) THEN << >>
  ELSE (IF i \in keep THEN <<seq[i]>> ELSE << >>) \o FilterSeq(seq, keep, i + 1)

filterTasksByConditions(tasks, conditions, logic) ==
  IF Len(conditions) = 0 THEN tasks
  ELSE LET keep == {t \in 1..Len(tasks) :
                      IF logic = "AND"
                      THEN \A i \in 1..Len(conditions) : evaluateCondition(tasks[t], conditions[i])
                      ELSE \E i \in 1..Len(conditions) : evaluateCondition(tasks[t], conditions[i])}
       IN  FilterSeq(tasks, keep, 1)

\* getPropertyValues: the non-null, non-empty values of the property, in
\* task order, as plain strings.
RECURSIVE getPropertyValues(_, _)
getPropertyValues(tasks, property) ==
  IF tasks = << >> THEN << >>
  ELSE LET value == getTaskPropertyValue(Head(tasks), property)
       IN  (IF value # JNull /\ value # JStr(<< >>) THEN <<value.s>> ELSE << >>)
             \o getPropertyValues(Tail(tasks), property)

\* Array.prototype.sort() without a comparator, on strings: ascending code
\* unit order.
RECURSIVE InsertSorted(_, _)
InsertSorted(sorted, v) ==
  IF sorted = << >> THEN <<v>>
  ELSE IF StrLess(v, Head(sorted)) THEN <<v>> \o sorted
  ELSE <<Head(sorted)>> \o InsertSorted(Tail(sorted), v)

RECURSIVE SortStrings(_)
SortStrings(values) ==
  IF values = << >> THEN << >>
  ELSE InsertSorted(SortStrings(Tail(values)), Head(values))

\* String(n) for a non-negative integer.
DigitChars == <<"0", "1", "2", "3", "4", "5", "6", "7", "8", "9">>
RECURSIVE NatToString(_)
NatToString(n) ==
  IF n < 10 THEN <<DigitChars[n + 1]>>
  ELSE NatToString(n \div 10) \o <<DigitChars[(n % 10) + 1]>>

\* Array.prototype.join
RECURSIVE Join(_, _)
Join(values, sep) ==
  IF values = << >> THEN << >>
  ELSE IF Len(values) = 1 THEN values[1]
  ELSE values[1] \o sep \o Join(Tail(values), sep)

\* computeMin without the sort.
computeMinUnsorted(tasks, property) ==
  LET values == getPropertyValues(tasks, property)
  IN  IF Len(values) = 0 THEN JNull ELSE JStr(values[1])

CountDone(tasks) == Cardinality({i \in 1..Len(tasks) : tasks[i].isDone})

computeMin(tasks, property) ==
  LET values == getPropertyValues(tasks, property)
  IN  IF Len(values) = 0 THEN JNull ELSE JStr(SortStrings(values)[1])

computeMax(tasks, property) ==
  LET values == getPropertyValues(tasks, property)
  IN  IF Len(values) = 0 THEN JNull ELSE JStr(SortStrings(values)[Len(values)])

computeCount(tasks, property) ==
  JStr(NatToString(Len(getPropertyValues(tasks, property))))

\* computePercentageDone with Math.floor.
computePercentageDoneTruncating(tasks) ==
  IF Len(tasks) = 0 THEN JStr(<<"0">>)
  ELSE JStr(NatToString((100 * CountDone(tasks)) \div Len(tasks)))

\* Math.round((doneCount / tasks.length) * 100): the nearest integer, a half
\* rounded up.
computePercentageDone(tasks) ==
  IF Len(tasks) = 0 THEN JStr(<<"0">>)
  ELSE JStr(NatToString((200 * CountDone(tasks) + Len(tasks)) \div (2 * Len(tasks))))

computeList(tasks, property) ==
  LET values == getPropertyValues(tasks, property)
  IN  IF Len(values) = 0 THEN JNull ELSE JStr(Join(values, <<",", " ">>))

\* computeFirst without the test for an empty string.
computeFirstAcceptingEmpty(tasks, property) ==
  LET hits == {i \in 1..Len(tasks) : getTaskPropertyValue(tasks[i], property) # JNull}
  IN  IF hits = {} THEN JNull ELSE getTaskPropertyValue(tasks[SetMin(hits)], property)

computeFirst(tasks, property) ==
  LET hits == {i \in 1..Len(tasks) :
                 LET value == getTaskPropertyValue(tasks[i], property)
                 IN  value # JNull /\ value # JStr(<< >>)}
  IN  IF hits = {} THEN JNull ELSE getTaskPropertyValue(tasks[SetMin(hits)], property)

computeLast(tasks, property) ==
  LET hits == {i \in 1..Len(tasks) :
                 LET value == getTaskPropertyValue(tasks[i], property)
                 IN  value # JNull /\ value # JStr(<< >>)}
  IN  IF hits = {} THEN JNull ELSE getTaskPropertyValue(tasks[SetMax(hits)], property)

\* executeOperation with count_open a copy of count_all.
executeOperationCountingOpenAsAll(tasks, taskProperty, operation) ==
  IF Len(tasks) = 0 THEN JNull
  ELSE CASE operation = "min" -> computeMin(tasks, taskProperty)
         [] operation = "max" -> computeMax(tasks, taskProperty)
         [] operation = "count" -> computeCount(tasks, taskProperty)
         [] operation = "count_all" -> JStr(NatToString(Len(tasks)))
         [] operation = "count_done" -> JStr(NatToString(CountDone(tasks)))
         [] operation = "count_open" -> JStr(NatToString(Len(tasks)))
         [] operation = "percentage_done" -> computePercentageDone(tasks)
         [] operation = "list" -> computeList(tasks, taskProperty)
         [] operation = "first" -> computeFirst(tasks, taskProperty)
         [] operation = "last" -> computeLast(tasks, taskProperty)
         [] OTHER -> JNull

\* executeOperation with a default case that counts the tasks.
executeOperationDefaultingToCount(tasks, taskProperty, operation) ==
  IF Len(tasks) = 0 THEN JNull
  ELSE CASE operation = "min" -> computeMin(tasks, taskProperty)
         [] operation = "max" -> computeMax(tasks, taskProperty)
         [] operation = "count" -> computeCount(tasks, taskProperty)
         [] operation = "count_all" -> JStr(NatToString(Len(tasks)))
         [] operation = "count_done" -> JStr(NatToString(CountDone(tasks)))
         [] operation = "count_open" ->
              JStr(NatToString(Cardinality({i \in 1..Len(tasks) : ~tasks[i].isDone})))
         [] operation = "percentage_done" -> computePercentageDone(tasks)
         [] operation = "list" -> computeList(tasks, taskProperty)
         [] operation = "first" -> computeFirst(tasks, taskProperty)
         [] operation = "last" -> computeLast(tasks, taskProperty)
         [] OTHER -> JStr(NatToString(Len(tasks)))

executeOperation(tasks, taskProperty, operation) ==
  IF Len(tasks) = 0 THEN JNull
  ELSE CASE operation = "min" -> computeMin(tasks, taskProperty)
         [] operation = "max" -> computeMax(tasks, taskProperty)
         [] operation = "count" -> computeCount(tasks, taskProperty)
         [] operation = "count_all" -> JStr(NatToString(Len(tasks)))
         [] operation = "count_done" -> JStr(NatToString(CountDone(tasks)))
         [] operation = "count_open" ->
              JStr(NatToString(Cardinality({i \in 1..Len(tasks) : ~tasks[i].isDone})))
         [] operation = "percentage_done" -> computePercentageDone(tasks)
         [] operation = "list" -> computeList(tasks, taskProperty)
         [] operation = "first" -> computeFirst(tasks, taskProperty)
         [] operation = "last" -> computeLast(tasks, taskProperty)
         [] OTHER -> JNull

----------------------------------------------------------------------------
(* frontmatterWriter.ts *)

\* parseInt(digits, 10) of a string of decimal digits.
RECURSIVE ParseDigits(_)
ParseDigits(s) ==
  IF s = << >> THEN 0
  ELSE 10 * ParseDigits(SubSeq(s, 1, Len(s) - 1)) + (CodeOf(s[Len(s)]) - CodeOf("0"))

AllDigits(s) == Len(s) > 0 /\ \A i \in 1..Len(s) : s[i] \in Digit

\* The digits after the decimal point that a number keeps: trailing zeros
\* carry no value.
StripTrailingZeros(s) ==
  LET keep == {j \in 1..Len(s) : s[j] # "0"}
  IN  IF keep = {} THEN << >> ELSE SubSeq(s, 1, SetMax(keep))

coerceValue(value) ==
  IF value.t = "number" THEN value
  ELSE LET s == value.s
           dot == IndexOf(s, <<".">>)
       IN  IF AllDigits(s) THEN JNum(ParseDigits(s), << >>)
           ELSE IF /\ dot > 0
                   /\ AllDigits(SubSeq(s, 1, dot - 1))
                   /\ AllDigits(SubSeq(s, dot + 1, Len(s)))
                THEN JNum(ParseDigits(SubSeq(s, 1, dot - 1)),
                          StripTrailingZeros(SubSeq(s, dot + 1, Len(s))))
                ELSE value

\* The loop's iteration without the overwrite policy: every update that
\* carries a value is written.
ApplyUpdateAlwaysOverwriting(frontmatter, update) ==
  IF update.value = JNull \/ update.value = JUndefined THEN frontmatter
  ELSE [frontmatter EXCEPT ![update.key] = coerceValue(update.value)]

\* The loop's iteration without the check for null: an update without a
\* value is written as null.
ApplyUpdateWritingNull(frontmatter, update) ==
  LET existingValue == frontmatter[update.key]
  IN  IF /\ ~update.overwriteExisting
         /\ existingValue # JUndefined
         /\ existingValue # JNull
         /\ existingValue # JStr(<< >>)
      THEN frontmatter
      ELSE [frontmatter EXCEPT ![update.key] =
              IF update.value = JNull \/ update.value = JUndefined
              THEN JNull ELSE coerceValue(update.value)]

\* One iteration of the loop in updateFrontmatterProperties' callback.
\* A header is a function from its keys to values; a key it does not hold
\* reads as undefined.
ApplyUpdate(frontmatter, update) ==
  LET existingValue == frontmatter[update.key]
      newValue == coerceValue(update.value)
  IN  IF update.value = JNull \/ update.value = JUndefined THEN frontmatter
      ELSE IF /\ ~update.overwriteExisting
              /\ existingValue # JUndefined
              /\ existingValue # JNull
              /\ existingValue # JStr(<< >>)
           THEN frontmatter
      ELSE IF frontmatter[update.key] # newValue
           THEN [frontmatter EXCEPT ![update.key] = newValue]
           ELSE frontmatter

\* The callback with its loop running from the last update to the first.
RECURSIVE updateFrontmatterPropertiesBackwards(_, _)
updateFrontmatterPropertiesBackwards(frontmatter, updates) ==
  IF updates = << >> THEN frontmatter
  ELSE updateFrontmatterPropertiesBackwards(
         ApplyUpdate(frontmatter, updates[Len(updates)]),
         SubSeq(updates, 1, Len(updates) - 1))

\* updateFrontmatterProperties deciding each update's overwrite policy on
\* the header as the call found it, not as the updates before have left it.
RECURSIVE ApplyOnSnapshot(_, _, _)
ApplyOnSnapshot(found, frontmatter, updates) ==
  IF updates = << >> THEN frontmatter
  ELSE LET update == Head(updates)
           kept == /\ ~update.overwriteExisting
                   /\ found[update.key] \notin {JUndefined, JNull, JStr(<< >>)}
       IN  ApplyOnSnapshot(found,
             IF update.value = JNull \/ update.value = JUndefined \/ kept
             THEN frontmatter
             ELSE [frontmatter EXCEPT ![update.key] = coerceValue(update.value)],
             Tail(updates))

updateFrontmatterPropertiesOnSnapshot(frontmatter, updates) ==
  ApplyOnSnapshot(frontmatter, frontmatter, updates)

\* The callback updateFrontmatterProperties hands to processFrontMatter: the
\* updates applied in list order.
RECURSIVE updateFrontmatterProperties(_, _)
updateFrontmatterProperties(frontmatter, updates) ==
  IF updates = << >> THEN frontmatter
  ELSE updateFrontmatterProperties(ApplyUpdate(frontmatter, Head(updates)), Tail(updates))

----------------------------------------------------------------------------
(* processor.ts *)

Update(key, value, overwriteExisting) ==
  [key |-> key, value |-> value, overwriteExisting |-> overwriteExisting]

\* isExcluded matching the folder's name alone, without the "/" after it.
isExcludedByName(filePath, excludedFolders) ==
  \E i \in 1..Len(excludedFolders) : StartsWith(filePath, excludedFolders[i])

isExcluded(filePath, excludedFolders) ==
  \E i \in 1..Len(excludedFolders) :
    LET folder == excludedFolders[i]
        normalizedFolder == IF EndsWith(folder, <<"/">>) THEN folder ELSE folder \o <<"/">>
    IN  StartsWith(filePath, normalizedFolder)

\* processDirectMapping with the last match instead of the first.
processDirectMappingLastMatch(mapping, tasks) ==
  LET hits == {i \in 1..Len(tasks) :
                 LET value == getTaskPropertyValue(tasks[i], mapping.taskProperty)
                 IN  value # JNull /\ value # JStr(<< >>)}
  IN  IF hits = {} THEN << >>
      ELSE << Update(mapping.frontmatterKey,
                     getTaskPropertyValue(tasks[SetMax(hits)], mapping.taskProperty),
                     mapping.overwriteExisting) >>

processDirectMapping(mapping, tasks) ==
  LET hits == {i \in 1..Len(tasks) :
                 LET value == getTaskPropertyValue(tasks[i], mapping.taskProperty)
                 IN  value # JNull /\ value # JStr(<< >>)}
  IN  IF hits = {} THEN << >>
      ELSE << Update(mapping.frontmatterKey,
                     getTaskPropertyValue(tasks[SetMin(hits)], mapping.taskProperty),
                     mapping.overwriteExisting) >>

countOps == {"count_all", "count_done", "count_open", "percentage_done"}

hasCountOps(operationMappings) ==
  \E i \in 1..Len(operationMappings) :
    operationMappings[i].enabled /\ operationMappings[i].operation \in countOps

\* The first loop of processFile, from mapping i on.
RECURSIVE DirectUpdates(_, _, _)
DirectUpdates(directMappings, tasks, i) ==
  IF i > Len(directMappings) THEN << >>
  ELSE (IF directMappings[i].enabled
        THEN processDirectMapping(directMappings[i], tasks) ELSE << >>)
         \o DirectUpdates(directMappings, tasks, i + 1)

\* The body of processFile's second loop for one enabled mapping.
processOperationMapping(mapping, tasks) ==
  LET filteredTasks == filterTasksByConditions(tasks, mapping.conditions, mapping.conditionLogic)
      result == executeOperation(filteredTasks, mapping.taskProperty, mapping.operation)
  IN  IF result # JNull
      THEN <<Update(mapping.frontmatterKey, result, mapping.overwriteExisting)>>
      ELSE << >>

\* The second loop of processFile, from mapping i on.
RECURSIVE OperationUpdates(_, _, _)
OperationUpdates(operationMappings, tasks, i) ==
  IF i > Len(operationMappings) THEN << >>
  ELSE (IF operationMappings[i].enabled
        THEN processOperationMapping(operationMappings[i], tasks) ELSE << >>)
         \o OperationUpdates(operationMappings, tasks, i + 1)

\* processFile with its two loops in the other order.
CollectUpdatesOperationsFirst(config, content) ==
  LET tasks == parseTasks(content)
  IN  IF Len(tasks) = 0 /\ ~hasCountOps(config.operationMappings) THEN << >>
      ELSE OperationUpdates(config.operationMappings, tasks, 1)
             \o DirectUpdates(config.directMappings, tasks, 1)

\* processFile from the content it read to the update list it hands to the
\* writer; the early return on a document without tasks leaves the list empty.
CollectUpdates(config, content) ==
  LET tasks == parseTasks(content)
  IN  IF Len(tasks) = 0 /\ ~hasCountOps(config.operationMappings) THEN << >>
      ELSE DirectUpdates(config.directMappings, tasks, 1)
             \o OperationUpdates(config.operationMappings, tasks, 1)

----------------------------------------------------------------------------
(* The vault: documents, texts and configurations of the model *)

MaxPasses == 2
MaxOpenTimers == 1

FileNote == [path |-> <<"n", ".", "m", "d">>, extension |-> "md"]
FileArchived == [path |-> <<"a", "/", "x", ".", "m", "d">>, extension |-> "md"]
\* "ab/x.md": its path shares a name prefix with the folder "a", no more.
FileAlike == [path |-> <<"a", "b", "/", "x", ".", "m", "d">>, extension |-> "md"]
Files == {FileNote, FileArchived, FileAlike}
\* The order in which the vault lists its files.
VaultOrder == <<FileArchived, FileAlike, FileNote>>
\* workspace.getActiveFile() with no file open.
NoFile == [path |-> << >>, extension |-> ""]

Keys == {"k1", "k2", "note"}
EmptyHeader == [k \in Keys |-> JUndefined]

DateApril == <<"2", "0", "2", "5", "-", "0", "4", "-", "1", "0">>
DateMay == <<"2", "0", "2", "5", "-", "0", "5", "-", "0", "1">>
OpenBox == <<"-", " ", "[", " ", "]", " ">>
DoneBox == <<"-", " ", "[", "x", "]", " ">>

\* A document without a task line.
TextNoTask == <<"n", "o", "t", "e">>
\* "- [x] 007 <due> 2025-05-01"
TextOneTask == DoneBox \o <<"0", "0", "7", " ">> \o GlyphDue \o <<" ">> \o DateMay
\* "- [x] b <high>" / "- [ ] c <due> 2025-04-10 <low>"
TextTwoTasks ==
  DoneBox \o <<"b", " ">> \o GlyphHigh \o <<"\n">>
    \o OpenBox \o <<"c", " ">> \o GlyphDue \o <<" ">> \o DateApril
    \o <<" ">> \o GlyphLow
\* "- [ ]" / "- [ ] <high>" / "- [ ] <low>": no task has a description, the
\* first none a priority.
TextPriorities ==
  <<"-", " ", "[", " ", "]">> \o <<"\n">>
    \o OpenBox \o GlyphHigh \o <<"\n">> \o OpenBox \o GlyphLow

\* The texts an edit of the model's documents chooses from.
EditTexts == {TextNoTask, TextTwoTasks}

DirectMapping(taskProperty, frontmatterKey, overwriteExisting, enabled) ==
  [ taskProperty |-> taskProperty, frontmatterKey |-> frontmatterKey,
    overwriteExisting |-> overwriteExisting, enabled |-> enabled ]

OperationMapping(taskProperty, operation, frontmatterKey, overwriteExisting, enabled, conditions, conditionLogic) ==
  [ taskProperty |-> taskProperty, operation |-> operation,
    frontmatterKey |-> frontmatterKey, overwriteExisting |-> overwriteExisting,
    enabled |-> enabled, conditions |-> conditions, conditionLogic |-> conditionLogic ]

Condition(property, operator, value) ==
  [property |-> property, operator |-> operator, value |-> value]

Settings(directMappings, operationMappings, excludedFolders, processOnModify) ==
  [ directMappings |-> directMappings, operationMappings |-> operationMappings,
    excludedFolders |-> excludedFolders, processOnModify |-> processOnModify ]

\* The configurations of the plugin's event-driven runs: the earliest due
\* date under k1 and the number of open tasks under k2, with and without
\* automatic processing and an excluded folder.
PluginConfigs ==
  { Settings(<< >>,
             << OperationMapping("due_date", "min", "k1", TRUE, TRUE, << >>, "AND"),
                OperationMapping("status", "count_open", "k2", TRUE, TRUE, << >>, "AND") >>,
             excluded, onModify) :
      excluded \in {<< >>, << <<"a">> >>}, onModify \in BOOLEAN }

\* The configurations of the runs of processFile alone: two mappings, in
\* every combination of their enabled flags and overwrite policies, on the
\* same key or on two keys: two direct mappings, a direct and an operation
\* mapping (with and without a condition), or two operation mappings (the
\* second one a counting operation).
NotDone == Condition("status", "not_equals", <<"x">>)

TwoDirect ==
  { Settings(<< DirectMapping("priority", "k1", ow1, en1),
                DirectMapping("description", key, ow2, en2) >>, << >>, << >>, FALSE) :
      ow1 \in BOOLEAN, en1 \in BOOLEAN, key \in {"k1", "k2"},
      ow2 \in BOOLEAN, en2 \in BOOLEAN }

DirectAndOperation ==
  { Settings(<< DirectMapping("priority", "k1", ow1, en1) >>,
             << OperationMapping("due_date", "min", key, ow2, en2, conditions, "AND") >>,
             << >>, FALSE) :
      ow1 \in BOOLEAN, en1 \in BOOLEAN, key \in {"k1", "k2"},
      ow2 \in BOOLEAN, en2 \in BOOLEAN, conditions \in {<< >>, <<NotDone>>} }

TwoOperations ==
  { Settings(<< >>,
             << OperationMapping("due_date", "max", "k1", ow1, en1, << >>, "AND"),
                OperationMapping("status", operation, key, ow2, en2, << >>, "AND") >>,
             << >>, FALSE) :
      ow1 \in BOOLEAN, en1 \in BOOLEAN, operation \in countOps,
      key \in {"k1", "k2"}, ow2 \in BOOLEAN, en2 \in BOOLEAN }

ResolveConfigs == TwoDirect \cup DirectAndOperation \cup TwoOperations

ResolveTexts == {TextNoTask, TextOneTask, TextTwoTasks, TextPriorities}

\* The headers a document starts with: k1 missing, null, empty or set by
\* the user.
ResolveHeaders ==
  { [k \in Keys |-> IF k = "k1" THEN v ELSE IF k = "note" THEN JStr(<<"o">>) ELSE JUndefined] :
      v \in {JUndefined, JNull, JStr(<< >>), JStr(<<"o">>)} }

\* The inputs of the runs of the writer alone: the update lists of up to
\* MaxUpdates updates and the headers they meet.  An update carries null, a
\* text, a text of digits or a number; k1 is missing, null, empty, a text
\* or the number that "007" denotes.
MaxUpdates == 2

WriterUpdates ==
  { Update(key, value, overwriteExisting) :
      key \in {"k1", "k2"},
      value \in {JNull, JStr(<<"0", "0", "7">>), JStr(<<"b">>), JNum(5, << >>)},
      overwriteExisting \in BOOLEAN }

WriterLists ==
  UNION { [1..n -> WriterUpdates] : n \in 1..MaxUpdates }

WriterHeaders ==
  { [k \in Keys |-> IF k = "k1" THEN v1 ELSE IF k = "k2" THEN v2 ELSE JStr(<<"o">>)] :
      v1 \in {JUndefined, JNull, JStr(<< >>), JStr(<<"o">>), JNum(7, << >>)},
      v2 \in {JUndefined, JStr(<<"o">>)} }

\* The inputs of the runs of the parser, the condition evaluator and the
\* aggregation engine alone: documents of up to MaxLines or MaxTasks lines.
MaxLines == 2
MaxTasks == 3

SeqsUpTo(S, n) == UNION { [1..k -> S] : k \in 0..n }

\* "- [x] b <high>"
LineDoneHigh == DoneBox \o <<"b", " ">> \o GlyphHigh
\* "- [ ] c <due> 2025-04-10 <low>"
LineOpenApril ==
  OpenBox \o <<"c", " ">> \o GlyphDue \o <<" ">> \o DateApril \o <<" ">> \o GlyphLow
\* "- [ ]": an open task without content
LineBare == <<"-", " ", "[", " ", "]">>
\* "- [x] 007 <due> 2025-05-01"
LineDoneMay == DoneBox \o <<"0", "0", "7", " ">> \o GlyphDue \o <<" ">> \o DateMay

\* Lines of the task-line shape: "* [X] b", and a tab, "-[/]b".
LineStarDone == <<"*", " ", "[", "X", "]", " ", "b">>
LineTight == <<"\t", "-", "[", "/", "]", "b">>
\* Lines of another shape: "- b", "- [] b", "- [xx] b", "b - [x]".
LineNoBox == <<"-", " ", "b">>
LineEmptyBox == <<"-", " ", "[", "]", " ", "b">>
LineWideBox == <<"-", " ", "[", "x", "x", "]", " ", "b">>
LineTextFirst == <<"b", " ", "-", " ", "[", "x", "]">>

ParseLines ==
  { LineDoneHigh, LineBare, LineStarDone, LineTight,
    TextNoTask, LineNoBox, LineEmptyBox, LineWideBox, LineTextFirst }

ParseTexts == { Join(lines, <<"\n">>) : lines \in SeqsUpTo(ParseLines, MaxLines) }

\* The inputs of the runs of the marker extraction.  A task line is the
\* open box followed by up to MaxMarkers segments, each once, joined by
\* single blanks.  Segments 1 to 7 are markers with their values (two due
\* dates, a scheduled date, the recurrence "e w", the priorities high, low
\* and highest); 8 and 9 are ordinary text, a letter and an emoji that is
\* no marker (U+1F600).
MaxMarkers == 3

Segments ==
  << GlyphDue \o <<" ">> \o DateMay,
     GlyphDue \o <<" ">> \o DateApril,
     GlyphScheduled \o <<" ">> \o DateApril,
     GlyphRecurrence \o <<" ", "e", " ", "w">>,
     GlyphHigh,
     GlyphLow,
     GlyphHighest,
     <<"c">>,
     <<"D83D", "DE00">> >>

MarkerIndices == 1..7

\* The sequences of at most n members of I, each at most once.
Orders(I, n) ==
  { p \in SeqsUpTo(I, n) : \A j \in 1..Len(p), k \in 1..Len(p) : p[j] = p[k] => j = k }

Ascending(I) ==
  [k \in 1..Cardinality(I) |-> CHOOSE i \in I : Cardinality({j \in I : j < i}) = k - 1]

SegmentsAt(p) == [k \in 1..Len(p) |-> Segments[p[k]]]

LineOfTexts(texts) == OpenBox \o Join(texts, <<" ">>)

LineOf(p) == LineOfTexts(SegmentsAt(p))

\* One task line of markers and text in any order.
MixedTexts == { LineOf(p) : p \in Orders(1..Len(Segments), MaxMarkers) }

\* Two task lines: markers in ascending order, and the same markers in
\* another order.
PermutedTexts ==
  { LineOf(Ascending({p[k] : k \in 1..Len(p)})) \o <<"\n">> \o LineOf(p) :
      p \in Orders(MarkerIndices, MaxMarkers) }

\* Due date markers whose date has a month of one digit, a day of three
\* digits, a year of five digits.
MalformedSegments ==
  { GlyphDue \o <<" ", "2", "0", "2", "5", "-", "5", "-", "0", "1">>,
    GlyphDue \o <<" ">> \o DateMay \o <<"1">>,
    GlyphDue \o <<" ", "1">> \o DateMay }

\* The segments of p with the segment m put in after the first at of them.
PutIn(p, at, m) ==
  SubSeq(SegmentsAt(p), 1, at) \o <<m>> \o SubSeq(SegmentsAt(p), at + 1, Len(p))

\* Two task lines that differ in one due date marker: well-formed on the
\* first line, malformed on the second.
MalformedTexts ==
  UNION { { LineOfTexts(PutIn(p, at, Segments[1])) \o <<"\n">> \o LineOfTexts(PutIn(p, at, m)) :
              m \in MalformedSegments, at \in 0..Len(p) } :
          p \in Orders({3, 4, 5, 8}, MaxMarkers - 1) }

MarkerTexts == MixedTexts \cup PermutedTexts \cup MalformedTexts

NoRule == OperationMapping("status", "count_all", "k1", TRUE, FALSE, << >>, "AND")

\* The inputs of the runs of the condition evaluator: documents of up to
\* MaxLines task lines and mappings with up to MaxConditions conditions,
\* one of them with an operator outside the vocabulary.
MaxConditions == 2

FilterTexts ==
  { Join(lines, <<"\n">>) :
      lines \in SeqsUpTo({LineDoneHigh, LineOpenApril, LineBare, LineDoneMay}, MaxLines) }

FilterConditions ==
  { NotDone,
    Condition("due_date", "less_than", DateMay),
    Condition("due_date", "not_equals", DateMay),
    Condition("status", "matches", <<"x">>) }

\* The inputs of the runs of the aggregation operations: documents of up
\* to MaxTasks task lines, the README's scenarios of five and of eight
\* tasks with three of them done, and a mapping with each operation name
\* (one outside the vocabulary), a property that is a date, a text or
\* unknown, and no condition, "not done" or an unknown operator.
ScenarioFive ==
  Join(<<LineDoneMay, LineOpenApril, LineDoneMay, LineBare, LineDoneMay>>, <<"\n">>)

ScenarioEight ==
  Join(<<LineDoneMay, LineOpenApril, LineBare, LineDoneMay,
         LineOpenApril, LineBare, LineDoneMay, LineOpenApril>>, <<"\n">>)

AggregateTexts ==
  { Join(lines, <<"\n">>) :
      lines \in SeqsUpTo({LineDoneMay, LineOpenApril, LineBare}, MaxTasks) }
    \cup {ScenarioFive, ScenarioEight}

OperationNames ==
  { "min", "max", "count", "count_all", "count_done", "count_open",
    "percentage_done", "list", "first", "last", "sum" }

AggregateRules ==
  { OperationMapping(taskProperty, operation, "k1", TRUE, TRUE, conditions, "AND") :
      taskProperty \in {"due_date", "description", "estimate"},
      operation \in OperationNames,
      conditions \in { << >>, <<NotDone>>, << Condition("status", "matches", <<"x">>) >> } }

FilterRules ==
  { OperationMapping("status", "count_all", "k1", TRUE, TRUE, conditions, logic) :
      conditions \in SeqsUpTo(FilterConditions, MaxConditions), logic \in {"AND", "OR"} }

----------------------------------------------------------------------------
(* main.ts: the plugin *)

VARIABLES
  vault,          \* the documents of the vault
  settings,       \* TaskPropertyPlugin.settings, shared with the processor
  content,        \* the text of each document, as vault.read returns it
  frontmatter,    \* the header of each document
  activeFile,     \* workspace.getActiveFile()
  isUpdating,     \* TaskPropertyPlugin.isUpdating: a set of paths
  debounceTimer,  \* the debouncer's pending call: << >> or <<latest argument>>
  openTimers,     \* per document, the pending 500 ms timers of file-open
  guardTimers,    \* per path, the pending 200 ms timers of handleFileChange
  passes,         \* the processFile calls in flight, a bag
  allRun,         \* the loop of processAllFiles
  unread,         \* per document: modified since a pass last read its text
  header,         \* updateFrontmatterProperties alone: the header object
  pending,        \*   the updates its loop has yet to visit
  applied,        \*   the updates visited, each with the header it found
  source,         \* the core alone: the text of a document
  rule,           \*   the operation mapping to resolve
  stage,          \*   how far the resolution has come
  parsed,         \*   parseTasks(source)
  filteredTasks,  \*   the tasks the mapping's conditions let through
  outcome,        \*   the result of executeOperation
  emitted         \*   the updates the mapping contributes

pluginVars == << vault, settings, content, frontmatter, activeFile, isUpdating,
                 debounceTimer, openTimers, guardTimers, passes, allRun, unread >>
writerVars == <<header, pending, applied>>
coreVars == <<source, rule, stage, parsed, filteredTasks, outcome, emitted>>
vars == <<pluginVars, writerVars, coreVars>>

\* A processFile call suspended at an await: at "read" on vault.read, at
\* "write" on updateFrontmatterProperties, holding the content it read.
Pass(file, caller, pc, text) ==
  [file |-> file, caller |-> caller, pc |-> pc, content |-> text]

\* ended: "no" while the command has not run or its loop is running,
\* "returned" once the loop has ended and the Notice shows processedCount,
\* "thrown" once a rejected processFile has ended the loop without a Notice.
IdleRun == [active |-> FALSE, rest |-> << >>, processedCount |-> 0, ended |-> "no"]

\* The number of processFile calls in flight for a document.
InFlight(file) ==
  BagCardinality([p \in {q \in BagToSet(passes) : q.file = file} |-> passes[p]])

\* vault.getMarkdownFiles()
getMarkdownFiles ==
  FilterSeq(VaultOrder,
            {i \in 1..Len(VaultOrder) :
               VaultOrder[i] \in vault /\ VaultOrder[i].extension = "md"}, 1)

\* The guards of processFile before its first await.
Processable(file) ==
  file.extension = "md" /\ ~isExcluded(file.path, settings.excludedFolders)

\* The vault's 'modify' handler: the debouncer's pending call after a
\* modify event for file.  The debouncer holds one timer and the arguments
\* of its latest call.
OnModify(file) ==
  IF ~settings.processOnModify THEN debounceTimer
  ELSE IF file.extension # "md" THEN debounceTimer
  ELSE IF file.path \in isUpdating THEN debounceTimer
  ELSE <<file>>

\* handleFileChange up to the first await of the processFile it calls.
HandleFileChange(file) ==
  IF file.path \in isUpdating
  THEN UNCHANGED <<isUpdating, passes, guardTimers>>
  ELSE /\ isUpdating' = isUpdating \cup {file.path}
       /\ IF Processable(file)
          THEN /\ BagCardinality(passes) < MaxPasses
               /\ passes' = passes (+) SetToBag({Pass(file, "handleFileChange", "read", << >>)})
               /\ UNCHANGED guardTimers
          ELSE /\ guardTimers' = [guardTimers EXCEPT ![file.path] = @ + 1]
               /\ UNCHANGED passes

\* The files processAllFiles' loop skips before the next one it processes.
RECURSIVE DropExcluded(_)
DropExcluded(files) ==
  IF files = << >> THEN << >>
  ELSE IF isExcluded(Head(files).path, settings.excludedFolders)
       THEN DropExcluded(Tail(files))
       ELSE files

\* processAllFiles' loop from the files left to the next await (a pass of
\* the next document that is not excluded) or to its return; others is the
\* bag of the other passes in flight.
AllFilesLoop(files, processedCount, others) ==
  LET rest == DropExcluded(files)
  IN  IF rest = << >>
      THEN /\ allRun' = [ active |-> FALSE, rest |-> << >>,
                          processedCount |-> processedCount, ended |-> "returned" ]
           /\ passes' = others
      ELSE /\ allRun' = [ active |-> TRUE, rest |-> Tail(rest),
                          processedCount |-> processedCount, ended |-> "no" ]
           /\ passes' = others (+) SetToBag({Pass(Head(rest), "processAllFiles", "read", << >>)})

\* processFile returns to its caller: handleFileChange's finally block, the
\* command's Notice, or the next iteration of processAllFiles' loop.
\* others is the bag of the other passes in flight.
Return(pass, others) ==
  CASE pass.caller = "handleFileChange" ->
         /\ guardTimers' = [guardTimers EXCEPT ![pass.file.path] = @ + 1]
         /\ passes' = others
         /\ UNCHANGED allRun
    [] pass.caller = "processCurrentFile" ->
         /\ passes' = others
         /\ UNCHANGED <<guardTimers, allRun>>
    [] pass.caller = "processAllFiles" ->
         /\ AllFilesLoop(allRun.rest, allRun.processedCount + 1, others)
         /\ UNCHANGED guardTimers

\* Throw without handleFileChange's finally block: a rejected pass leaves
\* no timer behind.
ThrowWithoutFinally(pass, others) ==
  /\ passes' = others
  /\ IF pass.caller = "processAllFiles"
     THEN allRun' = [ active |-> FALSE, rest |-> << >>,
                      processedCount |-> allRun.processedCount, ended |-> "thrown" ]
     ELSE UNCHANGED allRun
  /\ UNCHANGED guardTimers

\* processFile rejects: handleFileChange catches the error and runs its
\* finally block; the command's callback and processAllFiles' loop have no
\* catch, so the callback ends without its Notice and the loop is left.
\* others is the bag of the other passes in flight.
Throw(pass, others) ==
  CASE pass.caller = "handleFileChange" ->
         /\ guardTimers' = [guardTimers EXCEPT ![pass.file.path] = @ + 1]
         /\ passes' = others
         /\ UNCHANGED allRun
    [] pass.caller = "processCurrentFile" ->
         /\ passes' = others
         /\ UNCHANGED <<guardTimers, allRun>>
    [] pass.caller = "processAllFiles" ->
         /\ allRun' = [ active |-> FALSE, rest |-> << >>,
                        processedCount |-> allRun.processedCount, ended |-> "thrown" ]
         /\ passes' = others
         /\ UNCHANGED guardTimers

\* The user (or another plugin) changes the text of a document; the vault
\* raises 'modify'.
VaultModify(file, text) ==
  /\ text # content[file]
  /\ content' = [content EXCEPT ![file] = text]
  /\ unread' = [unread EXCEPT ![file] = TRUE]
  /\ debounceTimer' = OnModify(file)
  /\ UNCHANGED << vault, settings, frontmatter, activeFile, isUpdating, openTimers,
                  guardTimers, passes, allRun, writerVars, coreVars >>

\* The debouncer's timer runs out: handleFileChange(latest argument).
DebounceFire ==
  /\ debounceTimer # << >>
  /\ debounceTimer' = << >>
  /\ HandleFileChange(debounceTimer[1])
  /\ UNCHANGED << vault, settings, content, frontmatter, activeFile, openTimers,
                  allRun, unread, writerVars, coreVars >>

\* The workspace's 'file-open' handler, for a file.
FileOpen(file) ==
  /\ activeFile' = file
  /\ IF settings.processOnModify /\ file.extension = "md"
     THEN /\ openTimers[file] < MaxOpenTimers
          /\ openTimers' = [openTimers EXCEPT ![file] = @ + 1]
     ELSE UNCHANGED openTimers
  /\ UNCHANGED << vault, settings, content, frontmatter, isUpdating, debounceTimer,
                  guardTimers, passes, allRun, unread, writerVars, coreVars >>

\* The workspace's 'file-open' handler, for null (the last file closed).
FileOpenNull ==
  /\ activeFile # NoFile
  /\ activeFile' = NoFile
  /\ UNCHANGED << vault, settings, content, frontmatter, isUpdating, debounceTimer,
                  openTimers, guardTimers, passes, allRun, unread, writerVars, coreVars >>

\* The 500 ms timer of 'file-open' runs out: handleFileChange(file).
OpenTimerFire(file) ==
  /\ openTimers[file] > 0
  /\ openTimers' = [openTimers EXCEPT ![file] = @ - 1]
  /\ HandleFileChange(file)
  /\ UNCHANGED << vault, settings, content, frontmatter, activeFile, debounceTimer,
                  allRun, unread, writerVars, coreVars >>

\* The 200 ms timer of handleFileChange's finally block runs out.
GuardTimerFire(path) ==
  /\ guardTimers[path] > 0
  /\ guardTimers' = [guardTimers EXCEPT ![path] = @ - 1]
  /\ isUpdating' = isUpdating \ {path}
  /\ UNCHANGED << vault, settings, content, frontmatter, activeFile, debounceTimer,
                  openTimers, passes, allRun, unread, writerVars, coreVars >>

\* The command 'Process current file', up to processFile's first await.
ProcessCurrentFile ==
  /\ IF activeFile # NoFile /\ Processable(activeFile)
     THEN /\ BagCardinality(passes) < MaxPasses
          /\ passes' = passes (+) SetToBag({Pass(activeFile, "processCurrentFile", "read", << >>)})
     ELSE UNCHANGED passes
  /\ UNCHANGED << vault, settings, content, frontmatter, activeFile, isUpdating,
                  debounceTimer, openTimers, guardTimers, allRun, unread, writerVars, coreVars >>

\* The command 'Process all files', up to the first await of its loop.
ProcessAllFiles ==
  /\ ~allRun.active
  /\ BagCardinality(passes) < MaxPasses
  /\ AllFilesLoop(getMarkdownFiles, 0, passes)
  /\ UNCHANGED << vault, settings, content, frontmatter, activeFile, isUpdating,
                  debounceTimer, openTimers, guardTimers, unread, writerVars, coreVars >>

\* vault.read resolves: processFile parses the content, collects the
\* updates and either returns or calls the writer.
VaultReadDone(pass) ==
  /\ pass \in BagToSet(passes)
  /\ pass.pc = "read"
  /\ unread' = [unread EXCEPT ![pass.file] = FALSE]
  /\ LET text == content[pass.file]
         others == passes (-) SetToBag({pass})
     IN  IF Len(CollectUpdates(settings, text)) > 0
         THEN /\ passes' = others (+) SetToBag({Pass(pass.file, pass.caller, "write", text)})
              /\ UNCHANGED <<guardTimers, allRun>>
         ELSE Return(pass, others)
  /\ UNCHANGED << vault, settings, content, frontmatter, activeFile, isUpdating,
                  debounceTimer, openTimers, writerVars, coreVars >>

\* processFrontMatter resolves: the updates are merged into the header the
\* document has now, the vault raises 'modify' for the rewritten file, and
\* processFile returns.
ProcessFrontMatterDone(pass) ==
  /\ pass \in BagToSet(passes)
  /\ pass.pc = "write"
  /\ LET newHeader == updateFrontmatterProperties(frontmatter[pass.file],
                                                  CollectUpdates(settings, pass.content))
     IN  /\ frontmatter' = [frontmatter EXCEPT ![pass.file] = newHeader]
         /\ debounceTimer' = IF newHeader # frontmatter[pass.file]
                             THEN OnModify(pass.file) ELSE debounceTimer
  /\ Return(pass, passes (-) SetToBag({pass}))
  /\ UNCHANGED << vault, settings, content, activeFile, isUpdating, openTimers,
                  unread, writerVars, coreVars >>

\* vault.read rejects (the document was deleted or cannot be read):
\* processFile awaits it outside any try block and rejects with it.
VaultReadFail(pass) ==
  /\ pass \in BagToSet(passes)
  /\ pass.pc = "read"
  /\ Throw(pass, passes (-) SetToBag({pass}))
  /\ UNCHANGED << vault, settings, content, frontmatter, activeFile, isUpdating,
                  debounceTimer, openTimers, unread, writerVars, coreVars >>

\* processFrontMatter rejects: processFile's catch block logs the error
\* and shows a Notice, the header stays as it was, processFile returns.
ProcessFrontMatterFail(pass) ==
  /\ pass \in BagToSet(passes)
  /\ pass.pc = "write"
  /\ Return(pass, passes (-) SetToBag({pass}))
  /\ UNCHANGED << vault, settings, content, frontmatter, activeFile, isUpdating,
                  debounceTimer, openTimers, unread, writerVars, coreVars >>

UserHeader == [EmptyHeader EXCEPT !["note"] = JStr(<<"o">>)]

\* The core's variables while the plugin or the writer runs.
CoreIdle ==
  /\ source = << >>
  /\ rule = NoRule
  /\ stage = "idle"
  /\ parsed = << >>
  /\ filteredTasks = << >>
  /\ outcome = JNull
  /\ emitted = << >>

\* The plugin's and the writer's variables while the core runs alone.
PluginIdle ==
  /\ vault = {FileNote}
  /\ settings = Settings(<< >>, << >>, << >>, FALSE)
  /\ content = [f \in Files |-> TextNoTask]
  /\ frontmatter = [f \in Files |-> UserHeader]
  /\ activeFile = NoFile
  /\ isUpdating = {}
  /\ debounceTimer = << >>
  /\ openTimers = [f \in Files |-> 0]
  /\ guardTimers = [p \in {f.path : f \in Files} |-> 0]
  /\ passes = EmptyBag
  /\ allRun = IdleRun
  /\ unread = [f \in Files |-> FALSE]
  /\ header = EmptyHeader
  /\ pending = << >>
  /\ applied = << >>

\* The vaults of the plugin's event-driven runs: one document, in the root
\* or in the folder the configurations exclude.
PluginVaults == {{FileNote}, {FileArchived}}

Init ==
  /\ vault \in PluginVaults
  /\ settings \in PluginConfigs
  /\ content = [f \in Files |-> TextNoTask]
  /\ frontmatter = [f \in Files |-> UserHeader]
  /\ activeFile = NoFile
  /\ isUpdating = {}
  /\ debounceTimer = << >>
  /\ openTimers = [f \in Files |-> 0]
  /\ guardTimers = [p \in {f.path : f \in Files} |-> 0]
  /\ passes = EmptyBag
  /\ allRun = IdleRun
  /\ unread = [f \in Files |-> FALSE]
  /\ header = EmptyHeader
  /\ pending = << >>
  /\ applied = << >>
  /\ CoreIdle

Next ==
  \/ \E file \in vault, text \in EditTexts : VaultModify(file, text)
  \/ DebounceFire
  \/ \E file \in vault : FileOpen(file)
  \/ FileOpenNull
  \/ \E file \in vault : OpenTimerFire(file)
  \/ \E file \in Files : GuardTimerFire(file.path)
  \/ ProcessCurrentFile
  \/ ProcessAllFiles
  \/ \E pass \in BagToSet(passes) : VaultReadDone(pass)
  \/ \E pass \in BagToSet(passes) : ProcessFrontMatterDone(pass)

Spec == Init /\ [][Next]_vars

\* The host runs every timer that is due and resolves every pending read
\* and write; the user's edits, file-opens and commands are never forced.
Fairness ==
  /\ WF_vars(DebounceFire)
  /\ \A file \in Files : WF_vars(OpenTimerFire(file))
  /\ \A file \in Files : WF_vars(GuardTimerFire(file.path))
  /\ WF_vars(\E pass \in BagToSet(passes) : VaultReadDone(pass))
  /\ WF_vars(\E pass \in BagToSet(passes) : ProcessFrontMatterDone(pass))

FairSpec == Spec /\ Fairness

\* The plugin where reads and writes of the vault may fail.
NextOrFail ==
  \/ Next
  \/ \E pass \in BagToSet(passes) : VaultReadFail(pass)
  \/ \E pass \in BagToSet(passes) : ProcessFrontMatterFail(pass)

\* The plugin with the folder "a" excluded, on a vault whose one document
\* lies in that folder or in the folder "ab".
ExcludeInit ==
  /\ vault \in {{FileArchived}, {FileAlike}}
  /\ settings \in {s \in PluginConfigs : s.excludedFolders = << <<"a">> >>}
  /\ content = [f \in Files |-> TextNoTask]
  /\ frontmatter = [f \in Files |-> UserHeader]
  /\ activeFile = NoFile
  /\ isUpdating = {}
  /\ debounceTimer = << >>
  /\ openTimers = [f \in Files |-> 0]
  /\ guardTimers = [p \in {f.path : f \in Files} |-> 0]
  /\ passes = EmptyBag
  /\ allRun = IdleRun
  /\ unread = [f \in Files |-> FALSE]
  /\ header = EmptyHeader
  /\ pending = << >>
  /\ applied = << >>
  /\ CoreIdle

ExcludeSpec == ExcludeInit /\ [][NextOrFail]_vars

\* 'Process all files' alone, on a vault of three documents of which none
\* has been read yet, automatic processing off, the folder "a" excluded or
\* not; reads and writes may fail.
BatchInit ==
  /\ vault = Files
  /\ settings \in {s \in PluginConfigs : ~s.processOnModify}
  /\ content \in [Files -> EditTexts]
  /\ frontmatter = [f \in Files |-> UserHeader]
  /\ activeFile = NoFile
  /\ isUpdating = {}
  /\ debounceTimer = << >>
  /\ openTimers = [f \in Files |-> 0]
  /\ guardTimers = [p \in {f.path : f \in Files} |-> 0]
  /\ passes = EmptyBag
  /\ allRun = IdleRun
  /\ unread = [f \in Files |-> TRUE]
  /\ header = EmptyHeader
  /\ pending = << >>
  /\ applied = << >>
  /\ CoreIdle

BatchNext ==
  \/ ProcessAllFiles
  \/ \E pass \in BagToSet(passes) : VaultReadDone(pass)
  \/ \E pass \in BagToSet(passes) : VaultReadFail(pass)
  \/ \E pass \in BagToSet(passes) : ProcessFrontMatterDone(pass)
  \/ \E pass \in BagToSet(passes) : ProcessFrontMatterFail(pass)

BatchSpec == BatchInit /\ [][BatchNext]_vars

\* Automatic processing alone, on a vault of documents of which none is
\* excluded (two in AutoSpec, one in GuardSpec): edits with their debounce, file-open with its timer, the
\* passes they start and the guard's timers; reads and writes may fail.
AutoInitOn(documents) ==
  /\ vault = documents
  /\ settings \in {s \in PluginConfigs : s.processOnModify /\ s.excludedFolders = << >>}
  /\ content = [f \in Files |-> TextNoTask]
  /\ frontmatter = [f \in Files |-> UserHeader]
  /\ activeFile = NoFile
  /\ isUpdating = {}
  /\ debounceTimer = << >>
  /\ openTimers = [f \in Files |-> 0]
  /\ guardTimers = [p \in {f.path : f \in Files} |-> 0]
  /\ passes = EmptyBag
  /\ allRun = IdleRun
  /\ unread = [f \in Files |-> FALSE]
  /\ header = EmptyHeader
  /\ pending = << >>
  /\ applied = << >>
  /\ CoreIdle

AutoInit == AutoInitOn({FileNote, FileAlike})

AutoNext ==
  \/ \E file \in vault, text \in EditTexts : VaultModify(file, text)
  \/ DebounceFire
  \/ \E file \in vault : FileOpen(file)
  \/ \E file \in vault : OpenTimerFire(file)
  \/ \E file \in Files : GuardTimerFire(file.path)
  \/ \E pass \in BagToSet(passes) : VaultReadDone(pass)
  \/ \E pass \in BagToSet(passes) : VaultReadFail(pass)
  \/ \E pass \in BagToSet(passes) : ProcessFrontMatterDone(pass)
  \/ \E pass \in BagToSet(passes) : ProcessFrontMatterFail(pass)

AutoSpec == AutoInit /\ [][AutoNext]_vars

GuardInit == AutoInitOn({FileNote})

\* The host runs the guard's timer of n.md when it is due; nothing else
\* is forced.
GuardSpec ==
  GuardInit /\ [][AutoNext]_vars /\ WF_vars(GuardTimerFire(FileNote.path))

\* processFile alone: 'Process current file' on one document, one pass at
\* a time, automatic processing off.
ResolveInit ==
  /\ vault = {FileNote}
  /\ settings \in ResolveConfigs
  /\ \E text \in ResolveTexts :
       content = [f \in Files |-> IF f = FileNote THEN text ELSE TextNoTask]
  /\ \E h \in ResolveHeaders :
       frontmatter = [f \in Files |-> IF f = FileNote THEN h ELSE UserHeader]
  /\ activeFile = FileNote
  /\ isUpdating = {}
  /\ debounceTimer = << >>
  /\ openTimers = [f \in Files |-> 0]
  /\ guardTimers = [p \in {f.path : f \in Files} |-> 0]
  /\ passes = EmptyBag
  /\ allRun = IdleRun
  /\ unread = [f \in Files |-> FALSE]
  /\ header = EmptyHeader
  /\ pending = << >>
  /\ applied = << >>
  /\ CoreIdle

ResolveNext ==
  \/ passes = EmptyBag /\ ProcessCurrentFile
  \/ \E pass \in BagToSet(passes) : VaultReadDone(pass)
  \/ \E pass \in BagToSet(passes) : ProcessFrontMatterDone(pass)

ResolveSpec == ResolveInit /\ [][ResolveNext]_vars

\* processFile again and again on one document that was edited before the
\* first pass and never after it, the configuration left as it is.
RepeatInit ==
  /\ vault = {FileNote}
  /\ settings \in ResolveConfigs
  /\ \E text \in ResolveTexts :
       content = [f \in Files |-> IF f = FileNote THEN text ELSE TextNoTask]
  /\ \E h \in ResolveHeaders :
       frontmatter = [f \in Files |-> IF f = FileNote THEN h ELSE UserHeader]
  /\ activeFile = FileNote
  /\ isUpdating = {}
  /\ debounceTimer = << >>
  /\ openTimers = [f \in Files |-> 0]
  /\ guardTimers = [p \in {f.path : f \in Files} |-> 0]
  /\ passes = EmptyBag
  /\ allRun = IdleRun
  /\ unread = [f \in Files |-> f = FileNote]
  /\ header = EmptyHeader
  /\ pending = << >>
  /\ applied = << >>
  /\ CoreIdle

RepeatSpec == RepeatInit /\ [][ResolveNext]_vars

\* updateFrontmatterProperties alone: the loop of its callback, one update
\* per step, on a header and an update list of the bounded sets.  The
\* callback runs inside processFrontMatter; nothing else acts meanwhile.
ApplyNextUpdate ==
  /\ pending # << >>
  /\ header' = ApplyUpdate(header, Head(pending))
  /\ applied' = Append(applied, [update |-> Head(pending), found |-> header])
  /\ pending' = Tail(pending)
  /\ UNCHANGED <<pluginVars, coreVars>>

WriterInit ==
  /\ header \in WriterHeaders
  /\ pending \in WriterLists
  /\ applied = << >>
  /\ CoreIdle
  /\ vault = {FileNote}
  /\ settings = Settings(<< >>, << >>, << >>, FALSE)
  /\ content = [f \in Files |-> TextNoTask]
  /\ frontmatter = [f \in Files |-> UserHeader]
  /\ activeFile = NoFile
  /\ isUpdating = {}
  /\ debounceTimer = << >>
  /\ openTimers = [f \in Files |-> 0]
  /\ guardTimers = [p \in {f.path : f \in Files} |-> 0]
  /\ passes = EmptyBag
  /\ allRun = IdleRun
  /\ unread = [f \in Files |-> FALSE]

WriterNext == ApplyNextUpdate

WriterSpec == WriterInit /\ [][WriterNext]_vars

\* parseTasks alone, on a document of the bounded set.
ParseDocument ==
  /\ stage = "text"
  /\ parsed' = parseTasks(source)
  /\ stage' = "parsed"
  /\ UNCHANGED <<pluginVars, writerVars, source, rule, filteredTasks, outcome, emitted>>

ParseInit ==
  /\ source \in ParseTexts
  /\ rule = NoRule
  /\ stage = "text"
  /\ parsed = << >>
  /\ filteredTasks = << >>
  /\ outcome = JNull
  /\ emitted = << >>
  /\ PluginIdle

ParseNext == ParseDocument

ParseSpec == ParseInit /\ [][ParseNext]_vars

\* parseTasks on task lines of markers.
MarkerInit ==
  /\ source \in MarkerTexts
  /\ rule = NoRule
  /\ stage = "text"
  /\ parsed = << >>
  /\ filteredTasks = << >>
  /\ outcome = JNull
  /\ emitted = << >>
  /\ PluginIdle

MarkerSpec == MarkerInit /\ [][ParseNext]_vars

\* filterTasksByConditions alone: processFile's call for a mapping, and
\* the same call once more on its result.
FilterTasks ==
  /\ stage = "parsed"
  /\ filteredTasks' = filterTasksByConditions(parsed, rule.conditions, rule.conditionLogic)
  /\ stage' = "filtered"
  /\ UNCHANGED <<pluginVars, writerVars, source, rule, parsed, outcome, emitted>>

FilterAgain ==
  /\ stage = "filtered"
  /\ filteredTasks' =
       filterTasksByConditions(filteredTasks, rule.conditions, rule.conditionLogic)
  /\ stage' = "refiltered"
  /\ UNCHANGED <<pluginVars, writerVars, source, rule, parsed, outcome, emitted>>

\* processFile's loop body for one mapping, after the filter: the operation
\* on the filtered tasks and the update it pushes.
ExecuteOperation ==
  /\ stage = "filtered"
  /\ outcome' = executeOperation(filteredTasks, rule.taskProperty, rule.operation)
  /\ emitted' = processOperationMapping(rule, parsed)
  /\ stage' = "done"
  /\ UNCHANGED <<pluginVars, writerVars, source, rule, parsed, filteredTasks>>

AggregateInit ==
  /\ source \in AggregateTexts
  /\ rule \in AggregateRules
  /\ stage = "text"
  /\ parsed = << >>
  /\ filteredTasks = << >>
  /\ outcome = JNull
  /\ emitted = << >>
  /\ PluginIdle

AggregateNext ==
  \/ ParseDocument
  \/ FilterTasks
  \/ ExecuteOperation

AggregateSpec == AggregateInit /\ [][AggregateNext]_vars

FilterInit ==
  /\ source \in FilterTexts
  /\ rule \in FilterRules
  /\ stage = "text"
  /\ parsed = << >>
  /\ filteredTasks = << >>
  /\ outcome = JNull
  /\ emitted = << >>
  /\ PluginIdle

FilterNext ==
  \/ ParseDocument
  \/ FilterTasks
  \/ FilterAgain

FilterSpec == FilterInit /\ [][FilterNext]_vars

----------------------------------------------------------------------------
(* Claims *)

\* The plugin at rest: no timer pending and no pass in flight.  Only the
\* user can make it act again.
Quiescent ==
  /\ debounceTimer = << >>
  /\ \A file \in Files : openTimers[file] = 0 /\ guardTimers[file.path] = 0
  /\ passes = EmptyBag

\* C1: with processOnModify enabled, every modification of a document that
\* is not excluded is eventually followed by a pass that reads the text as
\* of that modification or later, also when the modification arrives while
\* a pass of the document is in flight or during the 200 ms after it.  So
\* the plugin never comes to rest with a modification that no pass has read.
C1_NoModificationLeftUnread ==
  \A file \in vault :
    (settings.processOnModify /\ Processable(file) /\ Quiescent) => ~unread[file]

\* C1 as the temporal property it is (for FairSpec).
C1_ModificationEventuallyRead ==
  \A file \in Files :
    [](( /\ file \in vault
         /\ settings.processOnModify
         /\ Processable(file)
         /\ unread[file] ) => <>(~unread[file]))

\* C2: at any time at most one processFile call is in flight for a
\* document, whichever trigger started it.
C2_AtMostOnePassPerDocument ==
  \A file \in Files : InFlight(file) <= 1

\* C3: a header write performed by a pass never starts a further pass of
\* the same document: in a step that rewrites a document's header, the
\* modify event of that write is discarded, so the debouncer is left as it
\* was, whichever trigger started the pass.
C3_OwnWriteDiscarded ==
  [][\A file \in Files :
       frontmatter'[file] # frontmatter[file] => debounceTimer' = debounceTimer]_vars

\* The enabled operation mappings that target key.
OperationMappingsFor(key) ==
  {i \in 1..Len(settings.operationMappings) :
     /\ settings.operationMappings[i].enabled
     /\ settings.operationMappings[i].frontmatterKey = key}

\* What operation mapping i computes from a text: its value, or null.
ResultOf(i, text) ==
  LET mapping == settings.operationMappings[i]
  IN  executeOperation(
        filterTasksByConditions(parseTasks(text), mapping.conditions, mapping.conditionLogic),
        mapping.taskProperty, mapping.operation)

\* The values operation mapping i computes from the other texts of the model.
ValuesOfOtherTexts(i, text) ==
  {coerceValue(ResultOf(i, other)) :
     other \in {t \in EditTexts \ {text} : ResultOf(i, t) # JNull}}

\* The pass completes in this step: processFile returns.
Completes(pass) ==
  /\ CopiesIn(pass, passes') < CopiesIn(pass, passes)
  /\ \/ pass.pc = "write"
     \/ Len(CollectUpdates(settings, content[pass.file])) = 0

\* C4: whenever a pass of a document completes and the text was not edited
\* during the pass, every header key that is the target of exactly one
\* enabled operation mapping, with overwrite on, holds the value the mapping
\* computes from the current text; a value computed from an earlier version
\* of the text does not remain under the key.
C4_HeaderFollowsText ==
  [][\A pass \in BagToSet(passes) :
       ( /\ Completes(pass)
         /\ pass.pc = "write" => pass.content = content[pass.file] )
       => \A key \in Keys :
            ( /\ Cardinality(OperationMappingsFor(key)) = 1
              /\ \A i \in OperationMappingsFor(key) :
                   settings.operationMappings[i].overwriteExisting )
            => \A i \in OperationMappingsFor(key) :
                 LET result == ResultOf(i, content[pass.file])
                     held == frontmatter'[pass.file][key]
                 IN  IF result # JNull
                     THEN held = coerceValue(result)
                     ELSE held \notin ValuesOfOtherTexts(i, content[pass.file])]_vars

\* The pass's vault.read resolves in this step.
ReadResolves(pass) ==
  pass.pc = "read" /\ CopiesIn(pass, passes') < CopiesIn(pass, passes)

\* The pass's header write resolves in this step.
WriteResolves(pass) ==
  pass.pc = "write" /\ CopiesIn(pass, passes') < CopiesIn(pass, passes)

\* The update list a pass at its header write hands to the writer.
UpdatesOf(pass) == CollectUpdates(settings, pass.content)

Zero == JNum(0, << >>)

\* C5: a document with zero recognized tasks and an enabled operation
\* mapping with count_all, count_done, count_open or percentage_done yields
\* an update with value 0 for the mapping's key: when a pass has read such a
\* document it goes on to the header write with that update in its list.
C5_CountOverNoTasks ==
  [][\A pass \in BagToSet(passes) :
       (ReadResolves(pass) /\ Len(parseTasks(content[pass.file])) = 0)
       => \A i \in 1..Len(settings.operationMappings) :
            LET mapping == settings.operationMappings[i]
            IN  (mapping.enabled /\ mapping.operation \in countOps)
                => \E next \in BagToSet(passes') :
                     /\ next.file = pass.file
                     /\ next.pc = "write"
                     /\ \E j \in 1..Len(CollectUpdates(settings, next.content)) :
                          LET update == CollectUpdates(settings, next.content)[j]
                          IN  /\ update.key = mapping.frontmatterKey
                              /\ coerceValue(update.value) = Zero]_vars

\* The header the i-th update of the list left behind.
AfterUpdate(i) == IF i < Len(applied) THEN applied[i + 1].found ELSE header

\* The update finds a value under its key: not undefined, null or "".
FindsValue(found, update) ==
  /\ found[update.key] # JUndefined
  /\ found[update.key] # JNull
  /\ found[update.key] # JStr(<< >>)

\* C6 as stated: an update with overwrite off that finds a value under its
\* key leaves the key's value unchanged; with overwrite on, or the key
\* missing or empty, the key is set to the update's value.
C6_KeySetToUpdateValue ==
  \A i \in 1..Len(applied) :
    LET update == applied[i].update
        found == applied[i].found
    IN  update.value # JNull =>
          IF ~update.overwriteExisting /\ FindsValue(found, update)
          THEN AfterUpdate(i)[update.key] = found[update.key]
          ELSE AfterUpdate(i)[update.key] = update.value

\* C6, amended: an update with overwrite off that finds a value under its
\* key leaves the key's value unchanged; with overwrite on, or the key
\* missing or empty, the key is set to the update's value, a text of
\* decimal digits (with an optional decimal part) as the number it denotes.
C6_KeySetToCoercedValue ==
  \A i \in 1..Len(applied) :
    LET update == applied[i].update
        found == applied[i].found
    IN  update.value # JNull =>
          IF ~update.overwriteExisting /\ FindsValue(found, update)
          THEN AfterUpdate(i)[update.key] = found[update.key]
          ELSE AfterUpdate(i)[update.key] = coerceValue(update.value)

\* A list of two updates of k1 has been applied: the first, "007" with
\* overwrite on, replaced the user's text by the number 7; the second, with
\* overwrite off, was skipped.
C6_Witness ==
  /\ Len(applied) = 2
  /\ pending = << >>
  /\ applied[1].update = Update("k1", JStr(<<"0", "0", "7">>), TRUE)
  /\ applied[1].found["k1"] = JStr(<<"o">>)
  /\ applied[2].update = Update("k1", JStr(<<"b">>), FALSE)
  /\ header["k1"] = JNum(7, << >>)

\* C7: applying an update list changes no key other than the target keys
\* of its updates, an update whose value is null changes nothing, and every
\* unrelated key keeps its value; the loop's result is the result of
\* updateFrontmatterProperties on the whole list.
C7_OnlyTargetKeysChange ==
  /\ \A i \in 1..Len(applied) :
       /\ \A key \in Keys \ {applied[i].update.key} :
            AfterUpdate(i)[key] = applied[i].found[key]
       /\ applied[i].update.value = JNull => AfterUpdate(i) = applied[i].found
  /\ applied # << >> =>
       /\ \A key \in Keys \ {applied[i].update.key : i \in 1..Len(applied)} :
            header[key] = applied[1].found[key]
       /\ pending = << >> =>
            header = updateFrontmatterProperties(
                       applied[1].found, [i \in 1..Len(applied) |-> applied[i].update])

\* A list of a null update of k1 (overwrite on) and an update of k2 has been
\* applied to a header with a text under k1: k1 kept it, k2 changed.
C7_Witness ==
  /\ Len(applied) = 2
  /\ pending = << >>
  /\ applied[1].update = Update("k1", JNull, TRUE)
  /\ applied[1].found["k1"] = JStr(<<"o">>)
  /\ applied[2].update.key = "k2"
  /\ header["k1"] = JStr(<<"o">>)
  /\ header["k2"] # applied[1].found["k2"]
  /\ header["note"] = JStr(<<"o">>)

\* The mappings of the configuration, direct and operation, and the order
\* in which processFile visits them.
MappingIds ==
  {<<"direct", i>> : i \in 1..Len(settings.directMappings)}
    \cup {<<"operation", i>> : i \in 1..Len(settings.operationMappings)}

MappingOf(id) ==
  IF id[1] = "direct" THEN settings.directMappings[id[2]]
  ELSE settings.operationMappings[id[2]]

Before(a, b) ==
  \/ a[1] = "direct" /\ b[1] = "operation"
  \/ a[1] = b[1] /\ a[2] < b[2]

\* What a mapping yields from a text: no update or one.
YieldOf(id, text) ==
  IF id[1] = "direct" THEN processDirectMapping(MappingOf(id), parseTasks(text))
  ELSE processOperationMapping(MappingOf(id), parseTasks(text))

\* The enabled mappings that target key and yield a value from text.
Yielding(text, key) ==
  {id \in MappingIds :
     /\ MappingOf(id).enabled
     /\ MappingOf(id).frontmatterKey = key
     /\ YieldOf(id, text) # << >>}

\* Both updates are in the list, the earlier mapping's first.
EmittedInOrder(updates, earlier, later) ==
  \E i \in 1..Len(updates), j \in 1..Len(updates) :
    i < j /\ updates[i] = earlier /\ updates[j] = later

\* C8 as stated: when two enabled mappings target the same key and both
\* yield a value, both updates are emitted in configuration order and after
\* the write the key holds the later update's value, whatever the two
\* overwrite policies are.
C8_LastOneWins ==
  [][\A pass \in BagToSet(passes) :
       WriteResolves(pass) =>
         \A key \in Keys :
           \A a \in Yielding(pass.content, key), b \in Yielding(pass.content, key) :
             (Yielding(pass.content, key) = {a, b} /\ Before(a, b)) =>
               LET earlier == YieldOf(a, pass.content)[1]
                   later == YieldOf(b, pass.content)[1]
               IN  /\ EmittedInOrder(UpdatesOf(pass), earlier, later)
                   /\ frontmatter'[pass.file][key] = coerceValue(later.value)]_vars

\* C8, amended: when two enabled mappings target the same key and both
\* yield a value, both updates are emitted in configuration order; after
\* the write the key holds the later update's value when the later
\* mapping's overwrite policy is on.  When it is off the later update is
\* skipped: the key holds the earlier update's value if the earlier policy
\* is on or the key was missing or empty, and the value it had otherwise.
C8_LaterWinsWhenOverwriting ==
  [][\A pass \in BagToSet(passes) :
       WriteResolves(pass) =>
         \A key \in Keys :
           \A a \in Yielding(pass.content, key), b \in Yielding(pass.content, key) :
             (Yielding(pass.content, key) = {a, b} /\ Before(a, b)) =>
               LET earlier == YieldOf(a, pass.content)[1]
                   later == YieldOf(b, pass.content)[1]
                   found == frontmatter[pass.file]
               IN  /\ EmittedInOrder(UpdatesOf(pass), earlier, later)
                   /\ frontmatter'[pass.file][key] =
                        IF later.overwriteExisting THEN coerceValue(later.value)
                        ELSE IF earlier.overwriteExisting \/ ~FindsValue(found, earlier)
                             THEN coerceValue(earlier.value)
                             ELSE found[key]]_vars

\* A pass has written the header of a document with the tasks "b" (high)
\* and "c" (low) under two enabled direct mappings of k1, priority with
\* overwrite on before description with overwrite off: k1 holds the
\* priority, the earlier update's value.
C8_Witness ==
  /\ passes = EmptyBag
  /\ settings \in TwoDirect
  /\ \A i \in 1..2 : settings.directMappings[i].enabled
  /\ settings.directMappings[1].overwriteExisting
  /\ settings.directMappings[2].frontmatterKey = "k1"
  /\ ~settings.directMappings[2].overwriteExisting
  /\ content[FileNote] = TextTwoTasks
  /\ Cardinality(Yielding(content[FileNote], "k1")) = 2
  /\ frontmatter[FileNote]["k1"] = JStr(<<"h", "i", "g", "h">>)

\* The enabled mappings of a list, by index.
EnabledMappings(mappings) == {i \in 1..Len(mappings) : mappings[i].enabled}

\* The target key and overwrite policy of the mappings at the indices of
\* S, in the order of the list.
Targets(mappings, S) ==
  [j \in 1..Cardinality(S) |->
     LET i == CHOOSE i \in S : Cardinality({k \in S : k < i}) = j - 1
     IN  [key |-> mappings[i].frontmatterKey,
          overwriteExisting |-> mappings[i].overwriteExisting]]

\* C9: the update list of a pass is made of updates of enabled direct
\* mappings in their configured order followed by updates of enabled
\* operation mappings in their configured order, at most one of each
\* enabled mapping and none of a disabled one.
C9_UpdatesInConfigurationOrder ==
  \A pass \in BagToSet(passes) :
    pass.pc = "write" =>
      LET updates == UpdatesOf(pass)
          shape == [j \in 1..Len(updates) |->
                      [key |-> updates[j].key,
                       overwriteExisting |-> updates[j].overwriteExisting]]
      IN  \E D \in SUBSET EnabledMappings(settings.directMappings),
             O \in SUBSET EnabledMappings(settings.operationMappings) :
            shape = Targets(settings.directMappings, D)
                      \o Targets(settings.operationMappings, O)

\* A pass is at its header write with the update of an enabled direct
\* mapping of k1 (overwrite on) before the update of an enabled operation
\* mapping of k2 (overwrite off).
C9_Witness ==
  \E pass \in BagToSet(passes) :
    /\ pass.pc = "write"
    /\ settings \in DirectAndOperation
    /\ settings.directMappings[1].enabled
    /\ settings.operationMappings[1].enabled
    /\ Len(UpdatesOf(pass)) = 2
    /\ UpdatesOf(pass)[1].key = "k1" /\ UpdatesOf(pass)[1].overwriteExisting
    /\ UpdatesOf(pass)[2].key = "k2" /\ ~UpdatesOf(pass)[2].overwriteExisting

\* The property's value of the first task from i on, in line order, whose
\* value is neither absent nor empty; null when there is none.
RECURSIVE FirstValue(_, _, _)
FirstValue(tasks, property, i) ==
  IF i > Len(tasks) THEN JNull
  ELSE LET value == getTaskPropertyValue(tasks[i], property)
       IN  IF value # JNull /\ value # JStr(<< >>) THEN value
           ELSE FirstValue(tasks, property, i + 1)

\* The enabled direct mappings some task has a value for.
DirectWithValue(tasks) ==
  {i \in EnabledMappings(settings.directMappings) :
     FirstValue(tasks, settings.directMappings[i].taskProperty, 1) # JNull}

\* C10: for each enabled direct mapping the pass emits exactly one update,
\* with the source property's value of the first task in line order whose
\* value is neither absent nor empty, when there is such a task, and no
\* update otherwise: the pass's list starts with these updates, in mapping
\* order, and the mapping yields nothing else.
C10_DirectMappingFirstMatch ==
  \A pass \in BagToSet(passes) :
    pass.pc = "write" =>
      LET tasks == parseTasks(pass.content)
          D == DirectWithValue(tasks)
          expected ==
            [j \in 1..Cardinality(D) |->
               LET i == CHOOSE i \in D : Cardinality({k \in D : k < i}) = j - 1
                   mapping == settings.directMappings[i]
               IN  Update(mapping.frontmatterKey,
                          FirstValue(tasks, mapping.taskProperty, 1),
                          mapping.overwriteExisting)]
      IN  /\ Len(UpdatesOf(pass)) >= Len(expected)
          /\ SubSeq(UpdatesOf(pass), 1, Len(expected)) = expected
          /\ \A i \in EnabledMappings(settings.directMappings) :
               Len(processDirectMapping(settings.directMappings[i], tasks))
                 = IF i \in D THEN 1 ELSE 0

\* A pass is at its header write for the document whose first task has no
\* priority, the second high and the third low: the enabled direct mapping
\* of priority emitted high, and the enabled direct mapping of description,
\* empty in every task, nothing.
C10_Witness ==
  \E pass \in BagToSet(passes) :
    /\ pass.pc = "write"
    /\ pass.content = TextPriorities
    /\ settings \in TwoDirect
    /\ \A i \in 1..2 : settings.directMappings[i].enabled
    /\ UpdatesOf(pass) =
         << Update("k1", JStr(<<"h", "i", "g", "h">>),
                   settings.directMappings[1].overwriteExisting) >>

\* The task-line shape: leading whitespace, a list marker - or *, optional
\* whitespace, and a bracketed status marker of one character; marker and
\* box are the positions of the list marker and of the opening bracket.
ShapeAt(line, marker, box) ==
  /\ \A k \in 1..(marker - 1) : line[k] \in WhiteSpace
  /\ line[marker] \in {"-", "*"}
  /\ \A k \in (marker + 1)..(box - 1) : line[k] \in WhiteSpace
  /\ line[box] = "["
  /\ box + 2 <= Len(line)
  /\ line[box + 1] \notin LineTerminator
  /\ line[box + 2] = "]"

MatchesTaskShape(line) ==
  \E marker \in 1..Len(line), box \in 1..Len(line) :
    marker < box /\ ShapeAt(line, marker, box)

\* The status character of a line of the task-line shape.
StatusCharOf(line) ==
  LET box == CHOOSE box \in 1..Len(line) :
               \E marker \in 1..(box - 1) : ShapeAt(line, marker, box)
  IN  line[box + 1]

\* The n-th smallest element of a set of numbers.
NthOf(S, n) == CHOOSE i \in S : Cardinality({k \in S : k < i}) = n - 1

\* C20: parseTasks returns exactly one record for each line of the
\* task-line shape and none for any other line, in increasing line order,
\* each record with its line, its 0-based line index and its status
\* character, and with isDone true exactly when that character is x or X.
C20_OneRecordPerTaskLine ==
  stage = "parsed" =>
    LET lines == SplitLines(source)
        shaped == {n \in 1..Len(lines) : MatchesTaskShape(lines[n])}
    IN  /\ Len(parsed) = Cardinality(shaped)
        /\ \A k \in 1..Len(parsed) :
             LET n == NthOf(shaped, k)
             IN  /\ parsed[k].line = lines[n]
                 /\ parsed[k].lineNumber = n - 1
                 /\ parsed[k].status = JStr(<<StatusCharOf(lines[n])>>)
                 /\ parsed[k].isDone <=> StatusCharOf(lines[n]) \in {"x", "X"}

\* The document "- b" / "* [X] b" has been parsed: one record, of the
\* second line (index 1), done.
C20_Witness ==
  /\ stage = "parsed"
  /\ source = LineNoBox \o <<"\n">> \o LineStarDone
  /\ Len(parsed) = 1
  /\ parsed[1].lineNumber = 1
  /\ parsed[1].isDone

\* The task satisfies the mapping's conditions under its combination mode.
SatisfiesRule(task) ==
  IF rule.conditionLogic = "AND"
  THEN \A i \in 1..Len(rule.conditions) : evaluateCondition(task, rule.conditions[i])
  ELSE \E i \in 1..Len(rule.conditions) : evaluateCondition(task, rule.conditions[i])

\* C11: filter returns, in original order, exactly the tasks that satisfy
\* all conditions under AND and exactly those that satisfy at least one
\* under OR; with no condition it returns its input under both modes.
C11_FilterKeepsSatisfyingTasks ==
  stage = "filtered" =>
    LET keep == {n \in 1..Len(parsed) : SatisfiesRule(parsed[n])}
    IN  IF rule.conditions = << >> THEN filteredTasks = parsed
        ELSE /\ Len(filteredTasks) = Cardinality(keep)
             /\ \A k \in 1..Len(filteredTasks) : filteredTasks[k] = parsed[NthOf(keep, k)]

\* The done tasks "007" (due in May) and "b" (no due date), filtered under
\* OR by "status is not x" and "due date is not 2025-05-01": the second
\* task satisfies one of the two conditions and is what is kept.
C11_Witness ==
  /\ stage = "filtered"
  /\ source = LineDoneMay \o <<"\n">> \o LineDoneHigh
  /\ rule.conditionLogic = "OR"
  /\ rule.conditions = << NotDone, Condition("due_date", "not_equals", DateMay) >>
  /\ Len(filteredTasks) = 1
  /\ filteredTasks[1].lineNumber = 1

\* C12: filtering is idempotent: filtering the result of a filter again,
\* with the same conditions and mode, yields the same tasks.
C12_FilterIdempotent ==
  [][(stage = "filtered" /\ stage' = "refiltered") => filteredTasks' = filteredTasks]_vars

\* The tasks "b" (done) and "c" (open) have been filtered twice by "status
\* is not x": the open task is what is left.
C12_Witness ==
  /\ stage = "refiltered"
  /\ source = LineDoneHigh \o <<"\n">> \o LineOpenApril
  /\ rule.conditions = <<NotDone>>
  /\ Len(filteredTasks) = 1
  /\ filteredTasks[1].lineNumber = 1

\* The property names of a condition: those of types.ts and one outside
\* them; and the literals conditions are evaluated against.
ConditionProperties ==
  { "due_date", "scheduled_date", "start_date", "created_date", "done_date",
    "recurrence", "priority", "status", "description", "estimate" }

ConditionLiterals == { << >>, <<"x">>, <<"b">>, <<"0">>, <<"0", "0", "7">>, DateApril, DateMay }

\* evaluateCondition on a task of the parsed document.
Holds(task, property, operator, literal) ==
  evaluateCondition(task, Condition(property, operator, literal))

\* C13: for every task, property and literal: not_equals holds exactly when
\* equals does not, not_contains exactly when contains does not,
\* is_not_empty exactly when is_empty does not; an absent value satisfies
\* not_equals, not_contains and is_empty and fails the other three; the
\* literal has no effect on is_empty and is_not_empty.
C13_NegatedOperators ==
  stage = "filtered" =>
  \A n \in 1..Len(parsed) : \A property \in ConditionProperties :
    \A literal \in ConditionLiterals :
      LET task == parsed[n]
      IN  /\ Holds(task, property, "not_equals", literal)
               <=> ~Holds(task, property, "equals", literal)
          /\ Holds(task, property, "not_contains", literal)
               <=> ~Holds(task, property, "contains", literal)
          /\ Holds(task, property, "is_not_empty", literal)
               <=> ~Holds(task, property, "is_empty", literal)
          /\ getTaskPropertyValue(task, property) = JNull =>
               /\ Holds(task, property, "not_equals", literal)
               /\ Holds(task, property, "not_contains", literal)
               /\ Holds(task, property, "is_empty", literal)
               /\ ~Holds(task, property, "equals", literal)
               /\ ~Holds(task, property, "contains", literal)
               /\ ~Holds(task, property, "is_not_empty", literal)
          /\ \A other \in ConditionLiterals :
               /\ Holds(task, property, "is_empty", literal)
                    <=> Holds(task, property, "is_empty", other)
               /\ Holds(task, property, "is_not_empty", literal)
                    <=> Holds(task, property, "is_not_empty", other)

\* The task "b" has no due date and the task "007" is due in May: filtered
\* by "due date is not 2025-05-01", the task without a due date is kept and
\* the other one is not.
C13_Witness ==
  /\ stage = "filtered"
  /\ source = LineDoneHigh \o <<"\n">> \o LineDoneMay
  /\ rule.conditions = << Condition("due_date", "not_equals", DateMay) >>
  /\ Len(filteredTasks) = 1
  /\ filteredTasks[1].dueDate = JNull

\* a is before b in the lexicographic order of the code units: at the
\* first index where they differ a has the smaller unit, or a is a proper
\* prefix of b.
LexLess(a, b) ==
  \E k \in 1..Len(b) :
    /\ \A j \in 1..(k - 1) : j <= Len(a) /\ a[j] = b[j]
    /\ k > Len(a) \/ CodeOf(a[k]) < CodeOf(b[k])

\* C14: the four ordering operators are false when the value is absent;
\* when it is present they agree with the lexicographic comparison of the
\* value against the literal, exactly one of less_than, equals and
\* greater_than holds, and greater_or_equal holds exactly when less_than
\* does not.
C14_OrderingOperators ==
  stage = "filtered" =>
  \A n \in 1..Len(parsed) : \A property \in ConditionProperties :
    \A literal \in ConditionLiterals :
      LET task == parsed[n]
          value == getTaskPropertyValue(task, property)
          lt == Holds(task, property, "less_than", literal)
          gt == Holds(task, property, "greater_than", literal)
          ge == Holds(task, property, "greater_or_equal", literal)
          le == Holds(task, property, "less_or_equal", literal)
          eq == Holds(task, property, "equals", literal)
      IN  IF value = JNull THEN ~lt /\ ~gt /\ ~ge /\ ~le
          ELSE /\ lt <=> LexLess(value.s, literal)
               /\ gt <=> LexLess(literal, value.s)
               /\ ge <=> ~LexLess(value.s, literal)
               /\ le <=> ~LexLess(literal, value.s)
               /\ Cardinality({c \in {"lt", "eq", "gt"} :
                                 \/ c = "lt" /\ lt
                                 \/ c = "eq" /\ eq
                                 \/ c = "gt" /\ gt}) = 1
               /\ ge <=> ~lt

\* The task "b" has no due date and the task "c" is due in April: filtered
\* by "due date before 2025-05-01", the task due in April is what is kept.
C14_Witness ==
  /\ stage = "filtered"
  /\ source = LineDoneHigh \o <<"\n">> \o LineOpenApril
  /\ rule.conditions = << Condition("due_date", "less_than", DateMay) >>
  /\ Len(filteredTasks) = 1
  /\ filteredTasks[1].dueDate = JStr(DateApril)

\* The operations whose result is a value of the property.
ValueOperations == {"min", "max", "list", "first", "last"}

\* The positions of the filtered tasks that have a non-absent, non-empty
\* value for the mapping's property, and the value at the k-th of them: the
\* value list.
ValuePositions ==
  { n \in 1..Len(filteredTasks) :
      /\ getTaskPropertyValue(filteredTasks[n], rule.taskProperty) # JNull
      /\ getTaskPropertyValue(filteredTasks[n], rule.taskProperty) # JStr(<< >>) }

ValueAt(k) ==
  getTaskPropertyValue(filteredTasks[NthOf(ValuePositions, k)], rule.taskProperty).s

\* C15: min, max, list, first and last return absent exactly when no task
\* of the input has a non-absent, non-empty value for the property (so on
\* an empty input) and a non-empty string otherwise; when the result is
\* absent the pass emits no update for the mapping.
C15_AbsentWithoutValues ==
  (stage = "done" /\ rule.operation \in ValueOperations) =>
    /\ outcome = JNull <=> ValuePositions = {}
    /\ outcome # JNull => outcome.t = "string" /\ Len(outcome.s) > 0
    /\ outcome = JNull => emitted = << >>
    /\ outcome # JNull => emitted = << Update(rule.frontmatterKey, outcome, TRUE) >>

\* The only task of the document has an empty description: the list of
\* the descriptions is absent and no update is emitted.
C15_Witness ==
  /\ stage = "done"
  /\ source = LineBare
  /\ rule.operation = "list"
  /\ rule.taskProperty = "description"
  /\ Len(filteredTasks) = 1
  /\ filteredTasks[1].description = JStr(<< >>)
  /\ outcome = JNull
  /\ emitted = << >>

\* C16: when the value list is non-empty, min is an element of it that is
\* lexicographically less than or equal to every element, max one that is
\* greater than or equal to every element, first its first element, last
\* its last element, list its elements joined with ", " in task order; and
\* the task list is as the filter produced it.
C16_ValueOperations ==
  (stage = "done" /\ rule.operation \in ValueOperations /\ ValuePositions # {}) =>
    LET count == Cardinality(ValuePositions)
        op == rule.operation
    IN  /\ outcome.t = "string"
        /\ op = "min" =>
              /\ \E k \in 1..count : outcome.s = ValueAt(k)
              /\ \A k \in 1..count : ~LexLess(ValueAt(k), outcome.s)
        /\ op = "max" =>
              /\ \E k \in 1..count : outcome.s = ValueAt(k)
              /\ \A k \in 1..count : ~LexLess(outcome.s, ValueAt(k))
        /\ op = "first" => outcome.s = ValueAt(1)
        /\ op = "last" => outcome.s = ValueAt(count)
        /\ op = "list" => outcome.s = Join([k \in 1..count |-> ValueAt(k)], <<",", " ">>)
        /\ filteredTasks =
             filterTasksByConditions(parsed, rule.conditions, rule.conditionLogic)

\* The tasks due in May and in April, in this order: the earliest due date
\* is the second task's, and the tasks are in their order still.
C16_Witness ==
  /\ stage = "done"
  /\ source = LineDoneMay \o <<"\n">> \o LineOpenApril
  /\ rule.operation = "min"
  /\ rule.taskProperty = "due_date"
  /\ rule.conditions = << >>
  /\ outcome = JStr(DateApril)
  /\ filteredTasks[1].dueDate = JStr(DateMay)

\* The result of an operation on the filtered tasks, and the number a
\* result of decimal digits denotes.
OperationResult(operation, property) == executeOperation(filteredTasks, property, operation)

IsNumeral(value) == value # JNull /\ value.t = "string" /\ AllDigits(value.s)

\* C17: for a non-empty task list, count_done plus count_open is count_all,
\* which is the number of tasks, and count for any property is at most
\* count_all.
C17_CountsAddUp ==
  (stage = "done" /\ Len(filteredTasks) > 0) =>
    \A property \in ConditionProperties :
      /\ \A operation \in {"count", "count_all", "count_done", "count_open"} :
           IsNumeral(OperationResult(operation, property))
      /\ ParseDigits(OperationResult("count_done", property).s)
           + ParseDigits(OperationResult("count_open", property).s)
             = ParseDigits(OperationResult("count_all", property).s)
      /\ ParseDigits(OperationResult("count_all", property).s) = Len(filteredTasks)
      /\ ParseDigits(OperationResult("count", property).s)
           <= ParseDigits(OperationResult("count_all", property).s)

\* Eight tasks, three of them done: count_open is "5".
C17_Witness ==
  /\ stage = "done"
  /\ source = ScenarioEight
  /\ rule.operation = "count_open"
  /\ rule.conditions = << >>
  /\ Len(filteredTasks) = 8
  /\ CountDone(filteredTasks) = 3
  /\ outcome = JStr(<<"5">>)
  /\ emitted = << Update("k1", JStr(<<"5">>), TRUE) >>

\* C18: for a non-empty task list, percentage_done is the decimal numeral
\* of an integer from 0 to 100 that is nearest to 100 times the number of
\* done tasks divided by the number of tasks.
C18_PercentageDone ==
  (stage = "done" /\ Len(filteredTasks) > 0) =>
    LET value == OperationResult("percentage_done", rule.taskProperty)
        total == Len(filteredTasks)
        doneCount == Cardinality({n \in 1..total : filteredTasks[n].isDone})
    IN  /\ IsNumeral(value)
        /\ value.s = NatToString(ParseDigits(value.s))
        /\ ParseDigits(value.s) \in 0..100
        /\ 2 * (100 * doneCount - ParseDigits(value.s) * total) <= total
        /\ 2 * (ParseDigits(value.s) * total - 100 * doneCount) <= total
        /\ rule.operation = "percentage_done" => outcome = value

\* Five tasks, three of them done: percentage_done is "60".
C18_Witness ==
  /\ stage = "done"
  /\ rule.operation = "percentage_done"
  /\ rule.conditions = << >>
  /\ source = ScenarioFive
  /\ Len(filteredTasks) = 5
  /\ CountDone(filteredTasks) = 3
  /\ outcome = JStr(<<"6", "0">>)

\* The fixed vocabularies of types.ts.
OperationVocabulary ==
  { "min", "max", "count", "count_all", "count_done", "count_open",
    "percentage_done", "list", "first", "last" }

PropertyVocabulary == ConditionProperties \ {"estimate"}

OperatorVocabulary ==
  { "equals", "not_equals", "contains", "not_contains", "is_empty", "is_not_empty",
    "greater_than", "less_than", "greater_or_equal", "less_or_equal" }

Misconfigured(mapping) ==
  \/ mapping.operation \notin OperationVocabulary
  \/ mapping.taskProperty \notin PropertyVocabulary
  \/ \E i \in 1..Len(mapping.conditions) :
       mapping.conditions[i].operator \notin OperatorVocabulary

\* C19 as stated: a mapping whose operation name, source property name or
\* condition operator name is outside the vocabularies contributes no
\* update, and an unknown property name reads as absent for every task.
C19_MisconfiguredContributesNothing ==
  stage = "done" =>
    /\ Misconfigured(rule) => emitted = << >>
    /\ rule.taskProperty \notin PropertyVocabulary =>
         \A n \in 1..Len(parsed) : getTaskPropertyValue(parsed[n], rule.taskProperty) = JNull

\* C19, amended: a mapping whose operation name is outside the vocabulary
\* contributes no update.  An unknown property name reads as absent for
\* every task, so a mapping with an unknown source property contributes no
\* update under min, max, list, first and last, while count gives "0" on a
\* non-empty input and count_all, count_done, count_open and
\* percentage_done give what they give under any property.  A condition
\* with an unknown operator name holds for every task.
C19_MisconfiguredNames ==
  stage = "done" =>
    /\ rule.operation \notin OperationVocabulary => outcome = JNull /\ emitted = << >>
    /\ rule.taskProperty \notin PropertyVocabulary =>
         /\ \A n \in 1..Len(parsed) :
              getTaskPropertyValue(parsed[n], rule.taskProperty) = JNull
         /\ rule.operation \in ValueOperations => outcome = JNull /\ emitted = << >>
         /\ (rule.operation = "count" /\ Len(filteredTasks) > 0) =>
              /\ outcome = JStr(<<"0">>)
              /\ emitted = << Update(rule.frontmatterKey, outcome, TRUE) >>
         /\ rule.operation \in {"count_all", "count_done", "count_open", "percentage_done"} =>
              \A property \in PropertyVocabulary :
                outcome = executeOperation(filteredTasks, property, rule.operation)
    /\ \A i \in 1..Len(rule.conditions) :
         rule.conditions[i].operator \notin OperatorVocabulary =>
           \A n \in 1..Len(parsed) : evaluateCondition(parsed[n], rule.conditions[i])

\* The operation "sum" on the due dates of a document with one task that
\* is due in May: the operation has a task to work on and the mapping
\* contributes no update.
C19_Witness ==
  /\ stage = "done"
  /\ source = LineDoneMay
  /\ rule.operation = "sum"
  /\ rule.taskProperty = "due_date"
  /\ rule.conditions = << >>
  /\ Len(filteredTasks) = 1
  /\ outcome = JNull
  /\ emitted = << >>

\* The priority glyphs with their names, in the order of precedence.
PriorityOrder ==
  << [glyph |-> GlyphHighest, name |-> <<"h", "i", "g", "h", "e", "s", "t">>],
     [glyph |-> GlyphHigh, name |-> <<"h", "i", "g", "h">>],
     [glyph |-> GlyphMedium, name |-> <<"m", "e", "d", "i", "u", "m">>],
     [glyph |-> GlyphLow, name |-> <<"l", "o", "w">>],
     [glyph |-> GlyphLowest, name |-> <<"l", "o", "w", "e", "s", "t">>] >>

\* The ranks of the priority glyphs that occur on the line.
PrioritiesOn(line) ==
  {r \in 1..Len(PriorityOrder) : Includes(line, PriorityOrder[r].glyph)}

\* C21: the priority of a task is the name of the glyph that is earliest
\* in the order highest, high, medium, low, lowest among the priority
\* glyphs on its line, wherever they stand; it is absent exactly when the
\* line has no priority glyph.
C21_PriorityByCheckOrder ==
  stage = "parsed" =>
    \A n \in 1..Len(parsed) :
      LET found == PrioritiesOn(parsed[n].line)
      IN  IF found = {} THEN parsed[n].priority = JNull
          ELSE parsed[n].priority = JStr(PriorityOrder[SetMin(found)].name)

\* A task line with the glyph of low before the glyph of high before the
\* glyph of highest: the priority is "highest".
C21_Witness ==
  /\ stage = "parsed"
  /\ source = LineOf(<<6, 5, 7>>)
  /\ Len(parsed) = 1
  /\ parsed[1].priority = JStr(<<"h", "i", "g", "h", "e", "s", "t">>)

\* The fields that markers set.
MarkerFields(task) ==
  << task.dueDate, task.scheduledDate, task.startDate, task.createdDate,
     task.doneDate, task.recurrence, task.priority >>

\* The number of places of the line where the glyph stands.
Occurrences(line, glyph) == Cardinality({i \in 1..Len(line) : StartsWithAt(line, i, glyph)})

DateGlyphs == {GlyphDue, GlyphScheduled, GlyphStart, GlyphCreated, GlyphDone}

PriorityGlyphs == {GlyphHighest, GlyphHigh, GlyphMedium, GlyphLow, GlyphLowest}

\* The text after the first recurrence glyph of the line up to the next
\* date or priority glyph or the end, trimmed; << >> when the line has no
\* recurrence glyph.
RecurrenceTextOf(line) ==
  LET i == IndexOf(line, GlyphRecurrence)
      from == i + Len(GlyphRecurrence)
      stops == {j \in from..Len(line) :
                  \E glyph \in DateGlyphs \cup PriorityGlyphs : StartsWithAt(line, j, glyph)}
  IN  IF i = 0 THEN << >>
      ELSE Trim(SubSeq(line, from, (IF stops = {} THEN Len(line) + 1 ELSE SetMin(stops)) - 1))

\* C23: the recurrence of a record is the text after the first recurrence
\* glyph up to the next date glyph or priority glyph or the end of the
\* content, trimmed; it is absent when there is no recurrence glyph or the
\* trimmed text is empty, so it is never the empty string and never
\* starts or ends with white space.
C23_RecurrenceUpToNextMarker ==
  stage = "parsed" =>
    \A n \in 1..Len(parsed) :
      /\ parsed[n].recurrence =
           (IF RecurrenceTextOf(parsed[n].line) = << >> THEN JNull
            ELSE JStr(RecurrenceTextOf(parsed[n].line)))
      /\ parsed[n].recurrence # JStr(<< >>)
      /\ parsed[n].recurrence # JNull =>
           parsed[n].recurrence.s = Trim(parsed[n].recurrence.s)

\* The task content of a task line: what follows the box, trimmed.
ContentOf(line) == Trim(TASK_CHECKBOX_REGEX(line).group[2])

\* The places of the content that belong to a marker: a date glyph with
\* the white space and the date after it, the recurrence glyph with the
\* span captured as the recurrence, a priority glyph.
MarkerPlaces(text) ==
  { i \in 1..Len(text) :
      \/ \E glyph \in DateGlyphs : \E j \in 1..i :
           /\ StartsWithAt(text, j, glyph)
           /\ IsDateAt(text, SkipWhile(text, j + Len(glyph), WhiteSpace))
           /\ i <= SkipWhile(text, j + Len(glyph), WhiteSpace) + 9
      \/ /\ RECURRENCE_REGEX(text) # NoMatch
         /\ RECURRENCE_REGEX(text).index <= i
         /\ i < RECURRENCE_REGEX(text).end
      \/ \E glyph \in PriorityGlyphs : \E j \in 1..i :
           StartsWithAt(text, j, glyph) /\ i < j + Len(glyph) }

\* The content without its marker places, white space collapsed, trimmed.
WithoutMarkers(text) ==
  LET keep == (1..Len(text)) \ MarkerPlaces(text)
  IN  Trim(CollapseWhiteSpace([k \in 1..Cardinality(keep) |-> text[NthOf(keep, k)]]))

\* C24: the description of a record is its task content with exactly the
\* markers removed (each date glyph with its date, the recurrence glyph
\* with the span captured as the recurrence, the priority glyphs), white
\* space collapsed and trimmed: no marker remains and no text outside the
\* markers is dropped.
C24_DescriptionWithoutMarkers ==
  stage = "parsed" =>
    \A n \in 1..Len(parsed) :
      parsed[n].description = JStr(WithoutMarkers(ContentOf(parsed[n].line)))

\* The fields of a record other than its line, its index, its due date and
\* its description.
FieldsBesideDue(task) ==
  << task.scheduledDate, task.startDate, task.createdDate, task.doneDate,
     task.recurrence, task.priority, task.status, task.isDone >>

\* C25: a due date marker whose date is not of four, two and two digits
\* leaves the due date absent; the line is a record all the same, and its
\* other fields are those of the line with a well-formed date in the
\* marker.
C25_MalformedDateLeftAbsent ==
  (stage = "parsed" /\ source \in MalformedTexts) =>
    /\ Len(parsed) = 2
    /\ parsed[2].dueDate = JNull
    /\ FieldsBesideDue(parsed[2]) = FieldsBesideDue(parsed[1])

\* The path lies under one of the folders: it starts with the folder's
\* path followed by "/".
UnderFolder(path, folders) ==
  \E i \in 1..Len(folders) :
    /\ Len(path) > Len(folders[i])
    /\ SubSeq(path, 1, Len(folders[i])) = folders[i]
    /\ path[Len(folders[i]) + 1] = "/"

\* C26: whichever trigger started it, no processing pass is in flight for
\* a document under an excluded folder, and the header of such a document
\* stays as it was; a document whose path does not lie under an excluded
\* folder, though it starts with the folder's name, passes processFile's
\* guards.
C26_ExcludedNeverProcessed ==
  /\ \A pass \in BagToSet(passes) :
       ~UnderFolder(pass.file.path, settings.excludedFolders)
  /\ \A file \in vault :
       IF UnderFolder(file.path, settings.excludedFolders)
       THEN frontmatter[file] = UserHeader /\ ~Processable(file)
       ELSE Processable(file)

\* A pass has rewritten the header of "ab/x.md" while the folder "a" is
\* excluded.
C26_Witness ==
  /\ vault = {FileAlike}
  /\ settings.excludedFolders = << <<"a">> >>
  /\ frontmatter[FileAlike] # UserHeader

\* The markdown documents of the vault that are not under an excluded
\* folder.
ToProcess ==
  {file \in vault : file.extension = "md"
                      /\ ~UnderFolder(file.path, settings.excludedFolders)}

\* C27: 'Process all files' has one pass in flight at a time, and when it
\* has ended it has returned: every markdown document not under an
\* excluded folder has been read by a pass and the reported count is the
\* number of those documents, also when a read or a write has failed.
C27_AllFilesProcessedAndCounted ==
  /\ BagCardinality(passes) <= 1
  /\ (~allRun.active /\ allRun.ended # "no") =>
       /\ allRun.ended = "returned"
       /\ allRun.processedCount = Cardinality(ToProcess)
       /\ \A file \in ToProcess : ~unread[file]

\* C28: a pending debounced pass for a document is not displaced or
\* cancelled by a modify event for another document: the debouncer's
\* pending call for a document stays until its timer runs out.
C28_PendingPassNotDisplaced ==
  [][\A file \in vault :
       debounceTimer = <<file>> => debounceTimer' \in {<<file>>, << >>}]_vars

\* The number of handleFileChange calls in flight for a path in a bag of
\* passes.
Handling(bag, path) ==
  LET calls == { pass \in BagToSet(bag) :
                   pass.caller = "handleFileChange" /\ pass.file.path = path }
  IN  IF calls = {} THEN 0 ELSE BagCardinality([pass \in calls |-> bag[pass]])

\* Each path in the in-progress set has either its pass in flight or the
\* one timer that removes it pending; a path outside the set has neither.
GuardAccounted ==
  \A file \in Files :
    Handling(passes, file.path) + guardTimers[file.path]
      = IF file.path \in isUpdating THEN 1 ELSE 0

\* When the pass of a path ends, by return or by throw, the path is still
\* in the set and its removal is scheduled; only the timer removes a
\* path; a call for a path that is in the set schedules nothing.
GuardStep ==
  \A file \in Files :
    LET path == file.path
    IN  /\ Handling(passes', path) < Handling(passes, path) =>
             path \in isUpdating' /\ guardTimers'[path] = guardTimers[path] + 1
        /\ (path \in isUpdating /\ path \notin isUpdating') =>
             guardTimers'[path] = guardTimers[path] - 1
        /\ (path \in isUpdating /\ Handling(passes', path) = Handling(passes, path)) =>
             guardTimers'[path] <= guardTimers[path]

\* C29: every path handleFileChange adds to the in-progress set is
\* removed again after its pass has ended: while the pass is in flight its
\* end, by return or by throw, schedules the removal, and once the
\* removal is scheduled the path leaves the set; a call the guard rejected
\* schedules no removal.
C29_GuardEntriesReleased ==
  /\ []GuardAccounted
  /\ [][GuardStep]_vars
  /\ (guardTimers[FileNote.path] > 0) ~> (FileNote.path \notin isUpdating)

\* The path of n.md is in the in-progress set after its pass has thrown,
\* the removal pending, while a file-open timer of n.md is still to fire:
\* the guard will reject that call.
C29_Witness ==
  /\ FileNote.path \in isUpdating
  /\ guardTimers[FileNote.path] = 1
  /\ passes = EmptyBag
  /\ unread[FileNote]
  /\ openTimers[FileNote] = 1

\* C30: a pass on a document whose text and configuration have not
\* changed since an earlier pass read it leaves the header as it is: the
\* updates it collects, merged into the header it finds, give that
\* header, for every combination of overwrite policies and also when the
\* mappings share a target key.
C30_SecondPassFixedPoint ==
  \A pass \in BagToSet(passes) :
    (pass.pc = "read" /\ ~unread[pass.file]) =>
      updateFrontmatterProperties(frontmatter[pass.file],
                                  CollectUpdates(settings, content[pass.file]))
        = frontmatter[pass.file]

\* A second pass is in flight on a document whose header the first pass
\* has rewritten, under two enabled mappings to the same key of which the
\* first keeps an existing value and the second overwrites.
C30_Witness ==
  /\ \E pass \in BagToSet(passes) : pass.pc = "read" /\ ~unread[pass.file]
  /\ frontmatter[FileNote]["k1"] \notin {JUndefined, JNull, JStr(<< >>), JStr(<<"o">>)}
  /\ settings \in TwoDirect
  /\ \A i \in 1..2 : settings.directMappings[i].enabled
                        /\ settings.directMappings[i].frontmatterKey = "k1"
  /\ ~settings.directMappings[1].overwriteExisting
  /\ settings.directMappings[2].overwriteExisting

====
